---- MODULE Spec2Model ----
(***************************************************************************)
(* State-machine model of gateway/app.py: the vLLM gateway's model         *)
(* lifecycle and VRAM admission controller (proxy_request), the launcher   *)
(* (start_model_container), stop_container and the idle reaper             *)
(* (shutdown_inactive_containers).                                         *)
(*                                                                         *)
(* Granularity.  The gateway runs on one asyncio event loop, so a task is  *)
(* only interleaved with others where it really suspends.  The Docker SDK  *)
(* calls and get_used_vram() are synchronous, and acquiring an asyncio     *)
(* lock that is free does not suspend; model_management_lock is never held *)
(* across a suspension and is therefore always free when it is taken.      *)
(* One action of this module is one run of a task from one suspension      *)
(* point to the next:                                                      *)
(*   await per_model_lock (contended)      app.py:596                      *)
(*   await asyncio.sleep(0.5) stale poll   app.py:402                      *)
(*   await download_gguf_from_repo         app.py:431                      *)
(*   await get_model_max_len               app.py:434                      *)
(*   await sleep(2) / health GET           app.py:514-516                  *)
(*   await asyncio.sleep(15) x 3           app.py:630-636                  *)
(*   await http_client.request             app.py:744                      *)
(*   await asyncio.sleep(60) (reaper)      app.py:317                      *)
(* LockSpec runs the same code statement by statement around               *)
(* model_management_lock; the other specifications leave the lock free     *)
(* and the reaper asleep between their actions.                            *)
(***************************************************************************)
EXTENDS Integers, Sequences, FiniteSets, TLC

(***************************************************************************)
(* Bounds of the model.                                                    *)
(***************************************************************************)
MaxReq == 2        \* requests of a behaviour of Spec
MaxRaceReq == 3    \* requests of a behaviour of RaceSpec
MaxTime == 2       \* width of the clock window
MaxFaults == 1     \* environment faults (Docker API errors, nvidia-smi failures, ...)
MaxLoopReq == 1    \* requests of a behaviour of LoopSpec

(***************************************************************************)
(* Program constants.                                                      *)
(***************************************************************************)
MinFootprint == 256        \* "if measured_vram > 256"
StalePolls == 10           \* "for attempt in range(10)"
HealthProbes == 1800       \* "for i in range(1800)"

Requests == 1..MaxRaceReq
Slots == 0..MaxRaceReq      \* container names VLLM_CONTAINER_PREFIX_<slot>

(***************************************************************************)
(* Configuration read from the environment at import time.                 *)
(***************************************************************************)
ModelIds == {"org/m1", "org/m2", "org/m3-gguf"}
\* ALLOWED_MODELS: alias -> canonical model id
ALLOWED_MODELS == [a1 |-> "org/m1", a2 |-> "org/m2", a3 |-> "org/m3-gguf"]
Aliases == DOMAIN ALLOWED_MODELS

\* Request bodies: not JSON, JSON without "model", JSON with a model name.
NoJson == "<<not json>>"
NoModel == "<<no model key>>"
Bodies == {NoJson, NoModel, "zz"} \cup Aliases

\* is_gguf_repo(model_id) on the model ids of this configuration
is_gguf_repo(m) == m \in {"org/m3-gguf"}

None == -1
\* VRAM an engine instance of a model really occupies once loaded (MiB)
TrueVram == [m \in ModelIds |->
               CASE m = "org/m1" -> 10000
                 [] m = "org/m2" -> 6000
                 [] OTHER -> 8000]
\* contents of memory_footprints.json at startup
StartupFootprints == [m \in ModelIds |->
               CASE m = "org/m1" -> 10000
                 [] m = "org/m2" -> 6000
                 [] OTHER -> None]
TotalVramChoices == {0, 16000}       \* nvidia-smi answer at startup (0: failed)
TimeoutChoices == {0, 1}             \* VLLM_INACTIVITY_TIMEOUT, in clock ticks

VARIABLES
  nreq,                    \* number of requests of this behaviour
  TOTAL_GPU_VRAM,
  VLLM_INACTIVITY_TIMEOUT,
  known_footprints,        \* ModelIds -> MiB or None
  footprint_file,          \* memory_footprints.json
  active_containers,       \* the registry: an insertion-ordered dict, as a sequence
  container_start_locks,   \* model ids that have a StartLock
  start_holder,            \* ModelIds -> request holding the StartLock, or 0
  start_waiters,           \* ModelIds -> FIFO of requests waiting for it
  download_locks,
  download_holder,
  docker,                  \* the container runtime: Slots -> container
  now,                     \* time.time()
  faults,                  \* environment faults so far
  pc,                      \* where each request's task is suspended
  body,                    \* the request's JSON body (its "model" value)
  status,                  \* the HTTP status answered (0: not yet)
  routed,                  \* target_container: the instance the request is sent to
  loc,                     \* the other local variables of proxy_request
  model_management_lock,   \* the task inside "async with model_management_lock", or 0
  reaper                   \* shutdown_inactive_containers: its position and locals

vars == <<nreq, TOTAL_GPU_VRAM, VLLM_INACTIVITY_TIMEOUT, known_footprints,
          footprint_file, active_containers, container_start_locks,
          start_holder, start_waiters, download_locks, download_holder,
          docker, now, faults, pc, body, status, routed, loc,
          model_management_lock, reaper>>

config == <<nreq, TOTAL_GPU_VRAM, VLLM_INACTIVITY_TIMEOUT>>

(***************************************************************************)
(* Values.                                                                 *)
(***************************************************************************)
NoContainer == [model |-> "none", cid |-> 0, healthy |-> FALSE]
NoRoute == [name |-> None, cid |-> 0]
\* The reaper between two sweeps: await asyncio.sleep(60)
Asleep == [pc |-> "sleep", inactive_containers |-> <<>>]
NoLocals == [branch |-> "none", container_name |-> None, footprint |-> None,
             vram_before |-> 0, vram_samples |-> <<>>,
             containers_to_evict |-> <<>>, current_vram_usage |-> 0,
             stale |-> 0, behind |-> 0, failure |-> "none",
             attempt |-> 0, i |-> 0, to_stop |-> <<>>]
\* proxy_request has returned: its locals are gone.  The branch it took, the
\* request it queued behind, the failure of its launch, if any, and the
\* loop counters of the launcher are kept as history.
Returned(lr) == [NoLocals EXCEPT !.branch = lr.branch, !.behind = lr.behind,
                                 !.failure = lr.failure,
                                 !.attempt = lr.attempt, !.i = lr.i]

Max2(a, b) == IF a >= b THEN a ELSE b

\* The first sample instead of the largest.
FirstOf(s) == s[1]

RECURSIVE MaxOf(_)
MaxOf(s) == IF Len(s) = 1 THEN s[1] ELSE Max2(s[1], MaxOf(Tail(s)))

Range(s) == {s[i] : i \in DOMAIN s}

(***************************************************************************)
(* The registry active_containers: a dict container_name -> ContainerState *)
(* in insertion order.  An entry's cid stands for its ip_address: it names *)
(* the container the entry was built from.                                 *)
(***************************************************************************)
ContainerState(m, name, cid, t, vram) ==
  [model_id |-> m, container_name |-> name, cid |-> cid,
   last_request_time |-> t, vram_footprint |-> vram]

Keys(reg) == [i \in DOMAIN reg |-> reg[i].container_name]

\* A lookup that never finds the model.
FindNothing(reg, m) == 0

\* next((c for c in active_containers.values() if c.model_id == m), None):
\* the index of the first entry of the model, 0 for None
FindByModel(reg, m) ==
  IF \E i \in DOMAIN reg : reg[i].model_id = m
  THEN CHOOSE i \in DOMAIN reg :
         /\ reg[i].model_id = m
         /\ \A j \in 1..(i - 1) : reg[j].model_id # m
  ELSE 0

\* active_containers[name] = state
DictSet(reg, e) ==
  IF \E i \in DOMAIN reg : reg[i].container_name = e.container_name
  THEN [i \in DOMAIN reg |->
          IF reg[i].container_name = e.container_name THEN e ELSE reg[i]]
  ELSE Append(reg, e)

\* if name in active_containers: del active_containers[name]
DictDel(reg, names) ==
  SelectSeq(reg, LAMBDA e : e.container_name \notin names)

\* target_container.last_request_time = time.time()
Touch(reg, i, t) == [reg EXCEPT ![i].last_request_time = t]

RECURSIVE SumVram(_)
SumVram(reg) ==
  IF reg = <<>> THEN 0 ELSE reg[1].vram_footprint + SumVram(Tail(reg))

\* sorted(active_containers.values(), key=lambda c: c.last_request_time):
\* a stable sort, so entries of equal time stay in insertion order
RECURSIVE InsertByTime(_, _)
InsertByTime(sorted, e) ==
  IF sorted = <<>> THEN <<e>>
  ELSE IF e.last_request_time < sorted[1].last_request_time
       THEN <<e>> \o sorted
       ELSE <<sorted[1]>> \o InsertByTime(Tail(sorted), e)

RECURSIVE SortedByTime(_)
SortedByTime(reg) ==
  IF reg = <<>> THEN <<>>
  ELSE InsertByTime(SortedByTime(SubSeq(reg, 1, Len(reg) - 1)), reg[Len(reg)])

\* An eviction loop that passes over the instances of unknown footprint.
RECURSIVE EvictLoopSparing(_, _, _, _, _)
EvictLoopSparing(sorted, evict, usage, footprint, total) ==
  IF sorted = <<>> THEN <<evict, usage>>
  ELSE IF sorted[1].vram_footprint = 0
       THEN EvictLoopSparing(Tail(sorted), evict, usage, footprint, total)
       ELSE LET evict1 == Append(evict, sorted[1].container_name)
                usage1 == usage - sorted[1].vram_footprint
            IN IF usage1 + footprint <= total THEN <<evict1, usage1>>
               ELSE EvictLoopSparing(Tail(sorted), evict1, usage1, footprint, total)

\* The eviction loop: victims in LRU order until the newcomer fits.
\* Returns <<containers_to_evict, current_vram_usage>>.
RECURSIVE EvictLoop(_, _, _, _, _)
EvictLoop(sorted, evict, usage, footprint, total) ==
  IF sorted = <<>> THEN <<evict, usage>>
  ELSE LET evict1 == Append(evict, sorted[1].container_name)
           usage1 == usage - sorted[1].vram_footprint
       IN IF usage1 + footprint <= total THEN <<evict1, usage1>>
          ELSE EvictLoop(Tail(sorted), evict1, usage1, footprint, total)

\* A budget test that tolerates one MiB over.
ChooseVictimsLax(reg, footprint, total) ==
  LET current_vram_usage == SumVram(reg)
  IN IF current_vram_usage + footprint > total + 1
     THEN EvictLoop(SortedByTime(reg), <<>>, current_vram_usage, footprint, total)
     ELSE <<(<<>>), current_vram_usage>>

\* A budget test that evicts unless room is left over.
ChooseVictimsEager(reg, footprint, total) ==
  LET current_vram_usage == SumVram(reg)
  IN IF current_vram_usage + footprint >= total
     THEN EvictLoop(SortedByTime(reg), <<>>, current_vram_usage, footprint, total)
     ELSE <<(<<>>), current_vram_usage>>

\* current_vram_usage, containers_to_evict of the KNOWN FOOTPRINT RUN
ChooseVictims(reg, footprint, total) ==
  LET current_vram_usage == SumVram(reg)
  IN IF current_vram_usage + footprint > total
     THEN EvictLoop(SortedByTime(reg), <<>>, current_vram_usage, footprint, total)
     ELSE <<(<<>>), current_vram_usage>>

\* A slot allocation by the number of registered instances.
FreeSlotByCount(reg) == Len(reg)

\* next(i for i in range(len(slot_indices) + 1) if i not in slot_indices)
FreeSlot(reg) ==
  LET slot_indices == Range(Keys(reg))
  IN CHOOSE i \in 0..Cardinality(slot_indices) :
       /\ i \notin slot_indices
       /\ \A j \in 0..(i - 1) : j \in slot_indices

(***************************************************************************)
(* The container runtime and the GPU.                                      *)
(***************************************************************************)
Present(dock, name) == dock[name].model # "none"

\* stop_container(name) for every name of names: the containers of failed
\* stay (APIError), the others are gone; the registry drops every name.
StopDocker(dock, names, failed) ==
  [n \in Slots |-> IF n \in names /\ n \notin failed THEN NoContainer ELSE dock[n]]

\* The sets of containers whose stop may fail, within the fault budget.
FaultSets(dock, names, f) ==
  {F \in SUBSET {n \in names : Present(dock, n)} : f + Cardinality(F) <= MaxFaults}

RECURSIVE SumLoaded(_, _)
SumLoaded(dock, S) ==
  IF S = {} THEN 0
  ELSE LET n == CHOOSE x \in S : TRUE
       IN (IF dock[n].healthy THEN TrueVram[dock[n].model] ELSE 0)
          + SumLoaded(dock, S \ {n})

\* nvidia-smi memory.used: what the loaded engines occupy
GpuUsed(dock) == SumLoaded(dock, {n \in Slots : Present(dock, n)})

\* get_used_vram(): the reading, or 0.0 when nvidia-smi fails
Readings(dock, f) ==
  {<<GpuUsed(dock), f>>} \cup
  (IF f < MaxFaults /\ GpuUsed(dock) # 0 THEN {<<0, f + 1>>} ELSE {})

Target(r) == ALLOWED_MODELS[body[r]]

\* One StartLock shared by every model.
LockOfGlobal(m) == "org/m1"

\* container_start_locks[target_model_id]: the key of a model's StartLock
LockOf(m) == m

InitWith(n) ==
  /\ nreq = n
  /\ TOTAL_GPU_VRAM \in TotalVramChoices
  /\ VLLM_INACTIVITY_TIMEOUT \in TimeoutChoices
  /\ known_footprints = StartupFootprints
  /\ footprint_file = StartupFootprints
  /\ active_containers = <<>>
  /\ container_start_locks = {}
  /\ start_holder = [m \in ModelIds |-> 0]
  /\ start_waiters = [m \in ModelIds |-> <<>>]
  /\ download_locks = {}
  /\ download_holder = [m \in ModelIds |-> 0]
  /\ docker = [n0 \in Slots |-> NoContainer]
  /\ now = 0
  /\ faults = 0
  /\ pc = [r \in Requests |-> "new"]
  /\ body = [r \in Requests |-> NoJson]
  /\ status = [r \in Requests |-> 0]
  /\ routed = [r \in Requests |-> NoRoute]
  /\ loc = [r \in Requests |-> NoLocals]
  /\ model_management_lock = 0
  /\ reaper = Asleep

Init == InitWith(MaxReq)

(***************************************************************************)
(* Pieces of a step.  Each states the primed values of the variables named *)
(* in its comment; the action that uses it states the others.              *)
(***************************************************************************)

\* A failure that leaves the StartLock held.
Fail500KeepLock(r, m, lr) ==
  /\ pc' = [pc EXCEPT ![r] = "done"]
  /\ status' = [status EXCEPT ![r] = 500]
  /\ start_holder' = [start_holder EXCEPT ![LockOf(m)] = r]
  /\ loc' = [loc EXCEPT ![r] = Returned(lr)]

\* An HTTPException(500) leaves "async with per_model_lock": the StartLock
\* is released and the request is answered 500.
\* lr: the request's locals.  Sets pc, status, start_holder, loc.
Fail500(r, m, lr) ==
  /\ pc' = [pc EXCEPT ![r] = "done"]
  /\ status' = [status EXCEPT ![r] = 500]
  /\ start_holder' = [start_holder EXCEPT ![LockOf(m)] = 0]
  /\ loc' = [loc EXCEPT ![r] = Returned(lr)]

\* start_model_container after the stale-container cleanup: take the
\* DownloadLock of a GGUF repo and start the download, or fetch config.json.
\* Sets pc, status, start_holder, download_locks, download_holder, loc.
AfterCleanup(r, m, lr) ==
  /\ status' = status
  /\ loc' = [loc EXCEPT ![r] = lr]
  /\ start_holder' = [start_holder EXCEPT ![LockOf(m)] = r]
  /\ IF is_gguf_repo(m)
     THEN /\ download_locks' = download_locks \cup {m}
          /\ download_holder' = [download_holder EXCEPT ![m] = r]
          /\ pc' = [pc EXCEPT ![r] = "download"]
     ELSE /\ UNCHANGED <<download_locks, download_holder>>
          /\ pc' = [pc EXCEPT ![r] = "maxlen"]

\* start_model_container, first part: the cleanup of a container found under
\* the target name.  dock and f are the runtime and the fault count so far.
\* Sets docker, faults, pc, status, start_holder, download_locks,
\* download_holder, loc.
CleanupStale(r, m, name, dock, f, lr) ==
  IF ~Present(dock, name)
  THEN \* NotFound: the expected case
       /\ docker' = dock
       /\ faults' = f
       /\ AfterCleanup(r, m, lr)
  ELSE \/ \* stopped, force-removed, gone at the first poll
          /\ docker' = [dock EXCEPT ![name] = NoContainer]
          /\ faults' = f
          /\ AfterCleanup(r, m, lr)
       \/ \* remove raises APIError
          /\ f < MaxFaults
          /\ docker' = dock
          /\ faults' = f + 1
          /\ Fail500(r, m, [lr EXCEPT !.failure = "remove"])
          /\ UNCHANGED <<download_locks, download_holder>>
       \/ \* removed without error but still listed: poll with sleep(0.5)
          /\ f < MaxFaults
          /\ docker' = dock
          /\ faults' = f + 1
          /\ pc' = [pc EXCEPT ![r] = "poll"]
          /\ loc' = [loc EXCEPT ![r] = [lr EXCEPT !.stale = dock[name].cid]]
          /\ status' = status
          /\ start_holder' = [start_holder EXCEPT ![LockOf(m)] = r]
          /\ UNCHANGED <<download_locks, download_holder>>

\* The optimistic check, or the re-check under the StartLock (taken and left
\* within this step), found the instance at index i: touch it, go and forward.
\* Sets every variable but body, container_start_locks, start_waiters.
Hit(r, m, i, how) ==
  /\ active_containers' = Touch(active_containers, i, now)
  /\ routed' = [routed EXCEPT ![r] =
                  [name |-> active_containers[i].container_name,
                   cid |-> active_containers[i].cid]]
  /\ loc' = [loc EXCEPT ![r] = [NoLocals EXCEPT !.branch = how, !.behind = loc[r].behind]]
  /\ pc' = [pc EXCEPT ![r] = "forward"]
  /\ UNCHANGED <<known_footprints, footprint_file, start_holder,
                 download_locks, download_holder, docker, faults, status>>

\* DISCOVERY RUN, up to the first suspension of start_model_container.
Discovery(r, m, footprint) ==
  LET container_names_to_stop == Keys(active_containers)
      names == Range(container_names_to_stop)
  IN \E failed \in FaultSets(docker, names, faults) :
       LET dock1 == StopDocker(docker, names, failed)
           f1 == faults + Cardinality(failed)
       IN \E rd \in Readings(dock1, f1) :
            /\ active_containers' = DictDel(active_containers, names)
            /\ CleanupStale(r, m, 0, dock1, rd[2],
                 [loc[r] EXCEPT !.branch = "discovery",
                                !.container_name = 0,
                                !.footprint = footprint,
                                !.containers_to_evict = container_names_to_stop,
                                !.vram_before = rd[1]])

\* KNOWN FOOTPRINT RUN, up to the first suspension of start_model_container.
KnownFootprint(r, m, footprint) ==
  LET plan == ChooseVictims(active_containers, footprint, TOTAL_GPU_VRAM)
      containers_to_evict == plan[1]
      names == Range(containers_to_evict)
      free_slot == FreeSlot(active_containers)
  IN \E failed \in FaultSets(docker, names, faults) :
       /\ active_containers' = DictDel(active_containers, names)
       /\ CleanupStale(r, m, free_slot, StopDocker(docker, names, failed),
                       faults + Cardinality(failed),
            [loc[r] EXCEPT !.branch = "known",
                           !.container_name = free_slot,
                           !.footprint = footprint,
                           !.containers_to_evict = containers_to_evict,
                           !.current_vram_usage = plan[2]])

\* A fallback that launches the model next to what is running.
FallbackAlongside(r, m, footprint) ==
  LET free_slot == FreeSlot(active_containers)
  IN /\ active_containers' = active_containers
     /\ CleanupStale(r, m, free_slot, docker, faults,
          [loc[r] EXCEPT !.branch = "fallback",
                         !.container_name = free_slot,
                         !.footprint = footprint])

\* Fallback when VRAM management is disabled: one container at a time.
Fallback(r, m, footprint) ==
  LET container_names_to_stop == Keys(active_containers)
      names == Range(container_names_to_stop)
  IN \E failed \in FaultSets(docker, names, faults) :
       /\ active_containers' = DictDel(active_containers, names)
       /\ CleanupStale(r, m, 0, StopDocker(docker, names, failed),
                       faults + Cardinality(failed),
            [loc[r] EXCEPT !.branch = "fallback",
                           !.container_name = 0,
                           !.footprint = footprint,
                           !.containers_to_evict = container_names_to_stop])

\* An admission that ignores the footprint store.
AdmitByDiscovery(r, m) ==
  /\ IF TOTAL_GPU_VRAM > 0 THEN Discovery(r, m, None)
                           ELSE Fallback(r, m, known_footprints[m])
  /\ UNCHANGED <<known_footprints, footprint_file, routed>>

\* The branch taken under the StartLock when the model is not running.
\* Sets every variable but body, container_start_locks, start_waiters.
Admit(r, m) ==
  LET footprint == known_footprints[m]
  IN /\ IF footprint = None /\ TOTAL_GPU_VRAM > 0 THEN Discovery(r, m, footprint)
        ELSE IF TOTAL_GPU_VRAM > 0 THEN KnownFootprint(r, m, footprint)
        ELSE Fallback(r, m, footprint)
     /\ UNCHANGED <<known_footprints, footprint_file, routed>>

\* A proxy_request without the double-check: admission runs whatever the
\* registry holds by the time the StartLock is acquired.
RecheckSkipped(r, m) == Admit(r, m)

\* The double-check after acquiring the StartLock.
Recheck(r, m) ==
  LET i == FindByModel(active_containers, m)
  IN IF i # 0 THEN Hit(r, m, i, "rehit") ELSE Admit(r, m)

\* A StartLock that never makes a request wait.
LockAlwaysFree(m) == TRUE

\* The StartLock of m can be taken without waiting.
LockFree(m) == start_holder[LockOf(m)] = 0 /\ start_waiters[LockOf(m)] = <<>>

\* A rejection that comes after the creation of a StartLock.
RejectAfterLock(r) ==
  /\ pc' = [pc EXCEPT ![r] = "done"]
  /\ status' = [status EXCEPT ![r] = 400]
  /\ container_start_locks' = container_start_locks \cup {LockOf("org/m1")}
  /\ UNCHANGED <<known_footprints, footprint_file, active_containers,
                 start_holder, start_waiters,
                 download_locks, download_holder, docker, faults,
                 routed, loc>>

\* The body is no JSON or has no usable "model", or the model is not a key
\* of ALLOWED_MODELS: JSONResponse(status_code=400).
\* Sets every variable but body, config, now.
Reject(r) ==
  /\ pc' = [pc EXCEPT ![r] = "done"]
  /\ status' = [status EXCEPT ![r] = 400]
  /\ UNCHANGED <<known_footprints, footprint_file, active_containers,
                 container_start_locks, start_holder, start_waiters,
                 download_locks, download_holder, docker, faults,
                 routed, loc>>

(***************************************************************************)
(* proxy_request from the arrival of the request to its first suspension.  *)
(***************************************************************************)
Arrive(r) ==
  /\ pc[r] = "new"
  /\ r <= nreq
  /\ \A q \in 1..(r - 1) : pc[q] # "new"      \* requests are numbered as they arrive
  /\ UNCHANGED <<config, model_management_lock, reaper, now>>
  /\ \E b \in Bodies :
       /\ body' = [body EXCEPT ![r] = b]
       /\ IF b \notin Aliases
          THEN Reject(r)
          ELSE LET m == ALLOWED_MODELS[b]
                   i == FindByModel(active_containers, m)
               IN IF i # 0
                  THEN /\ Hit(r, m, i, "hit")
                       /\ UNCHANGED <<container_start_locks, start_waiters>>
                  ELSE /\ container_start_locks' = container_start_locks \cup {LockOf(m)}
                       /\ IF LockFree(m)
                          THEN /\ Recheck(r, m)
                               /\ UNCHANGED start_waiters
                          ELSE /\ start_waiters' =
                                    [start_waiters EXCEPT ![LockOf(m)] = Append(@, r)]
                               /\ pc' = [pc EXCEPT ![r] = "wait"]
                               /\ loc' = [loc EXCEPT ![r].behind = start_holder[LockOf(m)]]
                               /\ UNCHANGED <<known_footprints, footprint_file,
                                              active_containers, start_holder,
                                              download_locks, download_holder,
                                              docker, faults, status, routed>>

\* The StartLock was released and r is the first waiter: r takes it.
Acquire(r) ==
  /\ pc[r] = "wait"
  /\ start_holder[LockOf(Target(r))] = 0
  /\ start_waiters[LockOf(Target(r))] # <<>>
  /\ Head(start_waiters[LockOf(Target(r))]) = r
  /\ start_waiters' = [start_waiters EXCEPT ![LockOf(Target(r))] = Tail(@)]
  /\ Recheck(r, Target(r))
  /\ UNCHANGED <<config, model_management_lock, reaper, now, body, container_start_locks>>


(***************************************************************************)
(* start_model_container, resumed at each of its suspension points.        *)
(***************************************************************************)

\* A poll loop that goes on to create whatever it saw.
PollProceeds(r) ==
  /\ pc[r] = "poll"
  /\ docker' = docker
  /\ AfterCleanup(r, Target(r), loc[r])
  /\ UNCHANGED <<config, model_management_lock, reaper, now, body, known_footprints, footprint_file,
                 active_containers, container_start_locks, start_waiters,
                 faults, routed>>

\* The poll loop of the stale-container cleanup (10 polls, 0.5 s apart).
Poll(r) ==
  /\ pc[r] = "poll"
  /\ LET name == loc[r].container_name
     IN \/ \* NotFound at a later poll: the removal has completed; go on
           /\ \/ ~Present(docker, name)
              \/ docker[name].cid = loc[r].stale
           /\ docker' = [docker EXCEPT ![name] = NoContainer]
           /\ AfterCleanup(r, Target(r), loc[r])
        \/ \* each of the 10 polls saw a container, the last of them before
           \* the sleep that ends here: HTTPException(500)
           /\ Fail500(r, Target(r), [loc[r] EXCEPT !.failure = "stale"])
           /\ UNCHANGED <<docker, download_locks, download_holder>>
  /\ UNCHANGED <<config, model_management_lock, reaper, now, body, known_footprints, footprint_file,
                 active_containers, container_start_locks, start_waiters,
                 faults, routed>>

\* A download that returns without leaving "async with download_lock".
DownloadKeepsLock(r) ==
  /\ pc[r] = "download"
  /\ pc' = [pc EXCEPT ![r] = "maxlen"]
  /\ UNCHANGED <<config, model_management_lock, reaper, now, body, known_footprints, footprint_file,
                 active_containers, container_start_locks, start_waiters,
                 download_locks, download_holder, docker, routed,
                 faults, status, start_holder, loc>>

\* download_gguf_from_repo returns or raises, leaving "async with download_lock".
Download(r) ==
  /\ pc[r] = "download"
  /\ download_holder' = [download_holder EXCEPT ![Target(r)] = 0]
  /\ \/ /\ pc' = [pc EXCEPT ![r] = "maxlen"]
        /\ UNCHANGED <<faults, status, start_holder, loc>>
     \/ \* HTTPException(500, "Failed to download GGUF model")
        /\ faults < MaxFaults
        /\ faults' = faults + 1
        /\ Fail500(r, Target(r), [loc[r] EXCEPT !.failure = "download"])
  /\ UNCHANGED <<config, model_management_lock, reaper, now, body, known_footprints, footprint_file,
                 active_containers, container_start_locks, start_waiters,
                 download_locks, docker, routed>>

\* get_model_max_len has answered: build the command and create the container.
Create(r) ==
  /\ pc[r] = "maxlen"
  /\ IF Present(docker, loc[r].container_name)
     THEN \* the name is taken: containers.run raises APIError (409)
          /\ Fail500(r, Target(r), [loc[r] EXCEPT !.failure = "conflict"])
          /\ UNCHANGED <<docker, faults>>
     ELSE \/ /\ docker' = [docker EXCEPT ![loc[r].container_name] =
                             [model |-> Target(r), cid |-> r, healthy |-> FALSE]]
             /\ pc' = [pc EXCEPT ![r] = "probe"]
             /\ UNCHANGED <<faults, status, start_holder, loc>>
          \/ \* APIError, or no IP address on the network (container removed
             \* again, None returned): both end in 500
             /\ faults < MaxFaults
             /\ faults' = faults + 1
             /\ Fail500(r, Target(r), [loc[r] EXCEPT !.failure = "create"])
             /\ UNCHANGED docker
  /\ UNCHANGED <<config, model_management_lock, reaper, now, body, known_footprints, footprint_file,
                 active_containers, container_start_locks, start_waiters,
                 download_locks, download_holder, routed>>

\* A registration that does not leave "async with per_model_lock".
RegisterKeepLock(r, m, vram) ==
  /\ active_containers' =
       DictSet(active_containers,
               ContainerState(m, loc[r].container_name, r, now, vram))
  /\ routed' = [routed EXCEPT ![r] = [name |-> loc[r].container_name, cid |-> r]]
  /\ pc' = [pc EXCEPT ![r] = "forward"]
  /\ start_holder' = [start_holder EXCEPT ![LockOf(m)] = r]

\* active_containers[container_name] = target_container, the StartLock is
\* left, last_request_time is set and the request goes to be forwarded.
\* Sets active_containers, routed, pc, start_holder.
Register(r, m, vram) ==
  /\ active_containers' =
       DictSet(active_containers,
               ContainerState(m, loc[r].container_name, r, now, vram))
  /\ routed' = [routed EXCEPT ![r] = [name |-> loc[r].container_name, cid |-> r]]
  /\ pc' = [pc EXCEPT ![r] = "forward"]
  /\ start_holder' = [start_holder EXCEPT ![LockOf(m)] = 0]

\* The engine of request r can load: its container is still there and the
\* GPU has the room its model occupies (with total VRAM unknown, any room).
CanLoad(r) ==
  /\ docker[loc[r].container_name].cid = r
  /\ \/ TOTAL_GPU_VRAM = 0
     \/ GpuUsed(docker) + TrueVram[Target(r)] <= TOTAL_GPU_VRAM

\* A discovery run that leaves the StartLock as soon as the launcher has
\* returned, before the samples.
ProbeHealthyReleases(r) ==
  /\ pc[r] = "probe"
  /\ CanLoad(r)
  /\ docker' = [docker EXCEPT ![loc[r].container_name].healthy = TRUE]
  /\ IF loc[r].branch = "discovery"
     THEN /\ pc' = [pc EXCEPT ![r] = "sample"]
          /\ start_holder' = [start_holder EXCEPT ![LockOf(Target(r))] = 0]
          /\ UNCHANGED <<active_containers, routed>>
     ELSE Register(r, Target(r),
                   IF loc[r].branch = "known" THEN loc[r].footprint ELSE 0)
  /\ UNCHANGED <<config, model_management_lock, reaper, now, body, known_footprints, footprint_file,
                 container_start_locks, start_waiters, download_locks,
                 download_holder, faults, status, loc>>

\* The health loop answers 200: start_model_container returns the instance.
ProbeHealthy(r) ==
  /\ pc[r] = "probe"
  /\ CanLoad(r)
  /\ docker' = [docker EXCEPT ![loc[r].container_name].healthy = TRUE]
  /\ IF loc[r].branch = "discovery"
     THEN \* await asyncio.sleep(15) before the first sample
          /\ pc' = [pc EXCEPT ![r] = "sample"]
          /\ UNCHANGED <<active_containers, routed, start_holder>>
     ELSE Register(r, Target(r),
                   IF loc[r].branch = "known" THEN loc[r].footprint ELSE 0)
  /\ UNCHANGED <<config, model_management_lock, reaper, now, body, known_footprints, footprint_file,
                 container_start_locks, start_waiters, download_locks,
                 download_holder, faults, status, loc>>

\* 1800 probes without a 200: stop_container(container_name), return None.
ProbeTimeout(r) ==
  /\ pc[r] = "probe"
  /\ LET name == loc[r].container_name
         f0 == IF CanLoad(r) THEN faults + 1 ELSE faults   \* an engine that hangs
     IN /\ f0 <= MaxFaults
        /\ \E failed \in FaultSets(docker, {name}, f0) :
             /\ docker' = StopDocker(docker, {name}, failed)
             /\ faults' = f0 + Cardinality(failed)
        /\ active_containers' = DictDel(active_containers, {name})
  /\ Fail500(r, Target(r), [loc[r] EXCEPT !.failure = "timeout"])
  /\ UNCHANGED <<config, model_management_lock, reaper, now, body, known_footprints, footprint_file,
                 container_start_locks, start_waiters, download_locks,
                 download_holder, routed>>

\* A store that keeps the last measurement only.
RememberLastOnly(store, m, measured_vram) ==
  [x \in ModelIds |-> IF x = m THEN measured_vram ELSE None]

\* known_footprints[target_model_id] = measured_vram
Remember(store, m, measured_vram) == [store EXCEPT ![m] = measured_vram]

\* A sanity check that lets every measurement pass.
PlausibleAny(measured_vram) == TRUE

\* if measured_vram > 256: # Sanity check for a reasonable footprint
Plausible(measured_vram) == measured_vram > MinFootprint

(***************************************************************************)
(* The discovery run after the launch: three samples 15 s apart, the       *)
(* footprint, the registration.                                            *)
(***************************************************************************)
Sample(r) ==
  /\ pc[r] = "sample"
  /\ \E rd \in Readings(docker, faults) :
       LET vram_samples == Append(loc[r].vram_samples, rd[1])
       IN /\ loc' = [loc EXCEPT ![r].vram_samples = vram_samples]
          /\ IF Len(vram_samples) < 3
             THEN /\ faults' = rd[2]
                  /\ UNCHANGED <<pc, known_footprints, footprint_file,
                                 active_containers, routed, start_holder>>
             ELSE LET vram_after == MaxOf(vram_samples)
                      measured_vram == vram_after - loc[r].vram_before
                  IN IF Plausible(measured_vram)
                     THEN /\ known_footprints' =
                               Remember(known_footprints, Target(r), measured_vram)
                          /\ \/ \* save_known_footprints
                                /\ footprint_file' = known_footprints'
                                /\ faults' = rd[2]
                             \/ \* IOError: logged, the file is not written
                                /\ rd[2] < MaxFaults
                                /\ faults' = rd[2] + 1
                                /\ UNCHANGED footprint_file
                          /\ Register(r, Target(r), measured_vram)
                     ELSE /\ faults' = rd[2]
                          /\ UNCHANGED <<known_footprints, footprint_file>>
                          /\ Register(r, Target(r), 0)
  /\ UNCHANGED <<config, model_management_lock, reaper, now, body, container_start_locks, start_waiters,
                 download_locks, download_holder, docker, status>>

\* A forwarding that drops the instance when the engine fails.
ForwardTearDown(r) ==
  /\ pc[r] = "forward"
  /\ pc' = [pc EXCEPT ![r] = "done"]
  /\ loc' = [loc EXCEPT ![r] = Returned(loc[r])]
  /\ routed' = [routed EXCEPT ![r] = NoRoute]
  /\ \/ /\ docker[routed[r].name].cid = routed[r].cid
        /\ status' = [status EXCEPT ![r] = 200]
        /\ UNCHANGED active_containers
     \/ /\ docker[routed[r].name].cid # routed[r].cid
        /\ status' = [status EXCEPT ![r] = 503]
        /\ active_containers' = DictDel(active_containers, {routed[r].name})
  /\ UNCHANGED <<config, model_management_lock, reaper, now, body, known_footprints, footprint_file,
                 container_start_locks, start_holder, faults,
                 start_waiters, download_locks, download_holder, docker>>

(***************************************************************************)
(* The forwarded request is answered.                                      *)
(***************************************************************************)
Forward(r) ==
  /\ pc[r] = "forward"
  /\ pc' = [pc EXCEPT ![r] = "done"]
  /\ loc' = [loc EXCEPT ![r] = Returned(loc[r])]
  /\ routed' = [routed EXCEPT ![r] = NoRoute]
  /\ LET alive == docker[routed[r].name].cid = routed[r].cid
     IN \/ /\ alive
           /\ status' = [status EXCEPT ![r] = 200]
           /\ UNCHANGED faults
        \/ \* httpx.HTTPStatusError: the engine's own error status
           /\ alive
           /\ faults < MaxFaults
           /\ faults' = faults + 1
           /\ status' = [status EXCEPT ![r] = 422]
        \/ \* httpx.RequestError: HTTPException(503)
           /\ IF alive THEN faults < MaxFaults /\ faults' = faults + 1
                       ELSE UNCHANGED faults
           /\ status' = [status EXCEPT ![r] = 503]
  /\ UNCHANGED <<config, model_management_lock, reaper, now, body, known_footprints, footprint_file,
                 active_containers, container_start_locks, start_holder,
                 start_waiters, download_locks, download_holder, docker>>

(***************************************************************************)
(* shutdown_inactive_containers: one sweep after asyncio.sleep(60).        *)
(***************************************************************************)
\* The idle test with its operands exchanged.
IdleReversed(e) == e.last_request_time - now > VLLM_INACTIVITY_TIMEOUT

\* current_time - state.last_request_time > VLLM_INACTIVITY_TIMEOUT
Idle(e) == now - e.last_request_time > VLLM_INACTIVITY_TIMEOUT

\* A sweep that does not look at whether the timeout is enabled.
SweepAlways ==
  /\ LET inactive_containers == Keys(SelectSeq(active_containers, Idle))
         names == Range(inactive_containers)
     IN \E failed \in FaultSets(docker, names, faults) :
          /\ docker' = StopDocker(docker, names, failed)
          /\ faults' = faults + Cardinality(failed)
          /\ active_containers' = DictDel(active_containers, names)
  /\ UNCHANGED <<config, model_management_lock, reaper, now, body, known_footprints, footprint_file,
                 container_start_locks, start_holder, start_waiters,
                 download_locks, download_holder, pc, status, routed, loc>>

\* if VLLM_INACTIVITY_TIMEOUT <= 0: continue; else the idle instances are
\* collected and stopped.
Sweep ==
  /\ IF VLLM_INACTIVITY_TIMEOUT <= 0
     THEN UNCHANGED <<active_containers, docker, faults>>      \* continue
     ELSE LET inactive_containers == Keys(SelectSeq(active_containers, Idle))
              names == Range(inactive_containers)
          IN \E failed \in FaultSets(docker, names, faults) :
               /\ docker' = StopDocker(docker, names, failed)
               /\ faults' = faults + Cardinality(failed)
               /\ active_containers' = DictDel(active_containers, names)
  /\ UNCHANGED <<config, model_management_lock, reaper, now, body, known_footprints, footprint_file,
                 container_start_locks, start_holder, start_waiters,
                 download_locks, download_holder, pc, status, routed, loc>>

(***************************************************************************)
(* Time passes.  The clock is kept in a window of MaxTime ticks: once now  *)
(* has reached MaxTime, a tick moves every last_request_time one tick back *)
(* instead (not below 0), which keeps now - last_request_time exact up to  *)
(* MaxTime and the order of the times that differ within the window.       *)
(***************************************************************************)
Tick ==
  /\ IF now < MaxTime
     THEN /\ now' = now + 1
          /\ UNCHANGED active_containers
     ELSE /\ now' = now
          /\ active_containers' =
               [i \in DOMAIN active_containers |->
                  [active_containers[i] EXCEPT
                     !.last_request_time = Max2(0, @ - 1)]]
  /\ UNCHANGED <<config, model_management_lock, reaper, known_footprints, footprint_file,
                 container_start_locks, start_holder, start_waiters,
                 download_locks, download_holder, docker, faults,
                 pc, body, status, routed, loc>>

Next ==
  \/ \E r \in Requests : Arrive(r)
  \/ \E r \in Requests : Acquire(r)
  \/ \E r \in Requests : Poll(r)
  \/ \E r \in Requests : Download(r)
  \/ \E r \in Requests : Create(r)
  \/ \E r \in Requests : ProbeHealthy(r)
  \/ \E r \in Requests : ProbeTimeout(r)
  \/ \E r \in Requests : Sample(r)
  \/ \E r \in Requests : Forward(r)
  \/ Sweep
  \/ Tick

Spec == Init /\ [][Next]_vars

\* The event loop keeps running the reaper task, and time passes.
LiveSpec == Init /\ [][Next]_vars /\ WF_vars(Tick) /\ WF_vars(Sweep)

\* What the event loop runs of request r once it has arrived: the resumption
\* of its coroutine at the lock it waits for or at the await it stands at.
Resume(r) ==
  \/ Acquire(r) \/ Poll(r) \/ Download(r) \/ Create(r)
  \/ ProbeHealthy(r) \/ ProbeTimeout(r) \/ Sample(r) \/ Forward(r)

\* Every await of a request returns (the runtime, the download, the probes
\* and the engine answer or time out), and the event loop resumes every
\* coroutine that is ready.
FairSpec == Init /\ [][Next]_vars /\ \A r \in Requests : WF_vars(Resume(r))

(***************************************************************************)
(* The two loops of start_model_container, iteration by iteration.  In the *)
(* actions above a request at "poll" or "probe" stands for the whole loop; *)
(* here loc[r].attempt and loc[r].i are the loop variables of the          *)
(* iteration the task sleeps in, and one step is one iteration.  The       *)
(* runtime may hold a container that an earlier run of the gateway left    *)
(* behind under the name <prefix>_0.  The reaper is disabled               *)
(* (VLLM_INACTIVITY_TIMEOUT = 0), so its sweeps and the clock change       *)
(* nothing.                                                                *)
(***************************************************************************)
\* The container is still listed: await asyncio.sleep(0.5), next attempt.
PollAgain(r) ==
  /\ pc[r] = "poll"
  /\ loc[r].attempt + 1 < StalePolls
  /\ Present(docker, loc[r].container_name)
  /\ loc' = [loc EXCEPT ![r].attempt = @ + 1]
  /\ UNCHANGED <<config, model_management_lock, reaper, now, body, known_footprints, footprint_file,
                 active_containers, container_start_locks, start_holder,
                 start_waiters, download_locks, download_holder, docker,
                 faults, pc, status, routed>>

\* The loop ends: by NotFound (break) before the last attempt has slept, or
\* by running out of attempts (the else of the for: HTTPException(500)).
PollEnds(r) ==
  /\ Poll(r)
  /\ pc'[r] = "done" <=> loc[r].attempt + 1 = StalePolls

\* A probe loop without its range.
ProbeAgainUnbounded(r) ==
  /\ pc[r] = "probe"
  /\ loc' = [loc EXCEPT ![r].i = @ + 1]
  /\ UNCHANGED <<config, model_management_lock, reaper, now, body, known_footprints, footprint_file,
                 active_containers, container_start_locks, start_holder,
                 start_waiters, download_locks, download_holder, docker,
                 faults, pc, status, routed>>

\* No 200 from /health (another status, or httpx.RequestError): next i.
ProbeAgain(r) ==
  /\ pc[r] = "probe"
  /\ loc[r].i + 1 < HealthProbes
  /\ loc' = [loc EXCEPT ![r].i = @ + 1]
  /\ UNCHANGED <<config, model_management_lock, reaper, now, body, known_footprints, footprint_file,
                 active_containers, container_start_locks, start_holder,
                 start_waiters, download_locks, download_holder, docker,
                 faults, pc, status, routed>>

\* The last probe has failed as well: the range is exhausted.
ProbeDeadline(r) ==
  /\ loc[r].i + 1 = HealthProbes
  /\ ProbeTimeout(r)

LoopResume(r) ==
  \/ PollAgain(r) \/ PollEnds(r) \/ Download(r) \/ Create(r)
  \/ ProbeHealthy(r) \/ ProbeAgain(r) \/ ProbeDeadline(r)
  \/ Sample(r) \/ Forward(r)

\* A container left behind by a crash or an improper shutdown.
Leftover == [model |-> "org/m1", cid |-> MaxRaceReq + 1, healthy |-> FALSE]

LoopInit ==
  /\ nreq = MaxLoopReq
  /\ TOTAL_GPU_VRAM \in TotalVramChoices
  /\ VLLM_INACTIVITY_TIMEOUT = 0
  /\ known_footprints = StartupFootprints
  /\ footprint_file = StartupFootprints
  /\ active_containers = <<>>
  /\ container_start_locks = {}
  /\ start_holder = [m \in ModelIds |-> 0]
  /\ start_waiters = [m \in ModelIds |-> <<>>]
  /\ download_locks = {}
  /\ download_holder = [m \in ModelIds |-> 0]
  /\ docker \in {[n \in Slots |-> NoContainer],
                 [n \in Slots |-> IF n = 0 THEN Leftover ELSE NoContainer]}
  /\ now = 0
  /\ faults = 0
  /\ pc = [r \in Requests |-> "new"]
  /\ body = [r \in Requests |-> NoJson]
  /\ status = [r \in Requests |-> 0]
  /\ routed = [r \in Requests |-> NoRoute]
  /\ loc = [r \in Requests |-> NoLocals]
  /\ model_management_lock = 0
  /\ reaper = Asleep

LoopNext ==
  \/ \E r \in Requests : Arrive(r)
  \/ \E r \in Requests : PollAgain(r)
  \/ \E r \in Requests : PollEnds(r)
  \/ \E r \in Requests : Download(r)
  \/ \E r \in Requests : Create(r)
  \/ \E r \in Requests : ProbeHealthy(r)
  \/ \E r \in Requests : ProbeAgain(r)
  \/ \E r \in Requests : ProbeDeadline(r)
  \/ \E r \in Requests : Sample(r)
  \/ \E r \in Requests : Forward(r)
  \/ Sweep

\* Every await of the launcher returns and the task is resumed.
LoopSpec ==
  LoopInit /\ [][LoopNext]_vars /\ \A r \in Requests : WF_vars(LoopResume(r))

(***************************************************************************)
(* proxy_request, stop_container, start_model_container and the reaper     *)
(* statement by statement around model_management_lock.  A position "Lnnn" *)
(* is a task about to execute line nnn of app.py, "in_nnn" a task inside   *)
(* the "async with model_management_lock" block entered at line nnn; the   *)
(* other positions are the suspension points of the actions above.  The    *)
(* event loop runs one task at a time: a task takes a step only while      *)
(* every other task stands at a suspension point.                          *)
(***************************************************************************)
ReaperTask == MaxRaceReq + 1

Suspensions ==
  {"new", "wait", "poll", "download", "maxlen", "probe", "sample", "forward", "done"}

\* An event loop that switches tasks anywhere.
RunsAnytime(t) == TRUE

\* The event loop can run task t: every other task is suspended.
Runs(t) ==
  /\ \A q \in Requests \ {t} : pc[q] \in Suspensions
  /\ t # ReaperTask => reaper.pc = "sleep"

store == <<known_footprints, footprint_file>>
start_locks == <<container_start_locks, start_holder, start_waiters>>
dl_locks == <<download_locks, download_holder>>

\* The block entered at each "async with model_management_lock" of a request.
BlockAt ==
  [L590 |-> "in_590", L609 |-> "in_609", L662 |-> "in_662", L697 |-> "in_697",
   L351 |-> "in_351", L424 |-> "in_424", L655 |-> "in_655", L690 |-> "in_690",
   L713 |-> "in_713"]

\* async with model_management_lock: the lock is free, the task enters.
EnterLock(r) ==
  /\ Runs(r)
  /\ pc[r] \in DOMAIN BlockAt
  /\ model_management_lock = 0
  /\ model_management_lock' = r
  /\ pc' = [pc EXCEPT ![r] = BlockAt[pc[r]]]
  /\ UNCHANGED <<config, now, body, store, start_locks, dl_locks, docker, faults,
                 active_containers, status, routed, loc, reaper>>

\* The request is read: 400, or the optimistic check (app.py:586).
Receive(r) ==
  /\ pc[r] = "new"
  /\ r <= nreq
  /\ \A q \in 1..(r - 1) : pc[q] # "new"
  /\ Runs(r)
  /\ UNCHANGED <<config, now, model_management_lock, reaper>>
  /\ \E b \in Bodies :
       /\ body' = [body EXCEPT ![r] = b]
       /\ IF b \notin Aliases
          THEN Reject(r)
          ELSE LET i == FindByModel(active_containers, ALLOWED_MODELS[b])
               IN /\ IF i # 0
                     THEN /\ routed' = [routed EXCEPT ![r] =
                                 [name |-> active_containers[i].container_name,
                                  cid |-> active_containers[i].cid]]
                          /\ loc' = [loc EXCEPT ![r].branch = "hit"]
                          /\ pc' = [pc EXCEPT ![r] = "L721"]
                     ELSE /\ pc' = [pc EXCEPT ![r] = "L590"]
                          /\ UNCHANGED <<routed, loc>>
                  /\ UNCHANGED <<store, start_locks, dl_locks, docker, faults,
                                 active_containers, status>>

\* if target_model_id not in container_start_locks: ... = asyncio.Lock()
CreateStartLock(r) ==
  /\ Runs(r)
  /\ pc[r] = "in_590"
  /\ model_management_lock = r
  /\ container_start_locks' = container_start_locks \cup {LockOf(Target(r))}
  /\ model_management_lock' = 0
  /\ pc' = [pc EXCEPT ![r] = "L596"]
  /\ UNCHANGED <<config, now, body, store, start_holder, start_waiters, dl_locks,
                 docker, faults, active_containers, status, routed, loc, reaper>>

\* async with per_model_lock: taken at once when free, else the task waits.
TakeStartLock(r) ==
  /\ Runs(r)
  /\ pc[r] = "L596"
  /\ IF LockFree(Target(r))
     THEN /\ start_holder' = [start_holder EXCEPT ![LockOf(Target(r))] = r]
          /\ pc' = [pc EXCEPT ![r] = "L598"]
          /\ UNCHANGED <<start_waiters, loc>>
     ELSE /\ start_waiters' =
               [start_waiters EXCEPT ![LockOf(Target(r))] = Append(@, r)]
          /\ pc' = [pc EXCEPT ![r] = "wait"]
          /\ loc' = [loc EXCEPT ![r].behind = start_holder[LockOf(Target(r))]]
          /\ UNCHANGED start_holder
  /\ UNCHANGED <<config, now, body, store, container_start_locks, dl_locks,
                 docker, faults, active_containers, status, routed,
                 model_management_lock, reaper>>

\* The StartLock was released and r is the first waiter.
Wake(r) ==
  /\ Runs(r)
  /\ pc[r] = "wait"
  /\ start_holder[LockOf(Target(r))] = 0
  /\ start_waiters[LockOf(Target(r))] # <<>>
  /\ Head(start_waiters[LockOf(Target(r))]) = r
  /\ start_waiters' = [start_waiters EXCEPT ![LockOf(Target(r))] = Tail(@)]
  /\ start_holder' = [start_holder EXCEPT ![LockOf(Target(r))] = r]
  /\ pc' = [pc EXCEPT ![r] = "L598"]
  /\ UNCHANGED <<config, now, body, store, container_start_locks, dl_locks,
                 docker, faults, active_containers, status, routed, loc,
                 model_management_lock, reaper>>

\* The double-check (app.py:598) and the choice of the branch (app.py:602-604,
\* 659, 694).
Decide(r) ==
  /\ Runs(r)
  /\ pc[r] = "L598"
  /\ LET m == Target(r)
         i == FindByModel(active_containers, m)
         footprint == known_footprints[m]
     IN IF i # 0
        THEN /\ routed' = [routed EXCEPT ![r] =
                    [name |-> active_containers[i].container_name,
                     cid |-> active_containers[i].cid]]
             /\ loc' = [loc EXCEPT ![r].branch = "rehit"]
             /\ pc' = [pc EXCEPT ![r] = "L716"]
        ELSE /\ routed' = routed
             /\ loc' = [loc EXCEPT ![r].footprint = footprint,
                          ![r].branch =
                             IF footprint = None /\ TOTAL_GPU_VRAM > 0 THEN "discovery"
                             ELSE IF TOTAL_GPU_VRAM > 0 THEN "known" ELSE "fallback"]
             /\ pc' = [pc EXCEPT ![r] =
                          IF footprint = None /\ TOTAL_GPU_VRAM > 0 THEN "L609"
                          ELSE IF TOTAL_GPU_VRAM > 0 THEN "L662" ELSE "L697"]
  /\ UNCHANGED <<config, now, body, store, start_locks, dl_locks, docker, faults,
                 active_containers, status, model_management_lock, reaper>>

\* A plan that goes on to the stops without leaving the lock.
PlanKeepsLock(r) ==
  /\ Runs(r)
  /\ pc[r] \in {"in_609", "in_662", "in_697"}
  /\ model_management_lock = r
  /\ LET plan == ChooseVictims(active_containers, loc[r].footprint, TOTAL_GPU_VRAM)
         containers_to_evict ==
           IF pc[r] = "in_662" THEN plan[1] ELSE Keys(active_containers)
     IN loc' = [loc EXCEPT
                  ![r].containers_to_evict = containers_to_evict,
                  ![r].to_stop = containers_to_evict,
                  ![r].current_vram_usage = IF pc[r] = "in_662" THEN plan[2] ELSE 0,
                  ![r].container_name =
                     IF pc[r] = "in_662" THEN FreeSlot(active_containers) ELSE @]
  /\ pc' = [pc EXCEPT ![r] = "stops"]
  /\ UNCHANGED <<config, now, body, store, start_locks, dl_locks, docker, faults,
                 active_containers, status, routed, reaper, model_management_lock>>

\* Inside the lock: what to stop, and the name of the new container
\* (app.py:610-614, 663-679, 698-702); the lock is left.
Plan(r) ==
  /\ Runs(r)
  /\ pc[r] \in {"in_609", "in_662", "in_697"}
  /\ model_management_lock = r
  /\ LET plan == ChooseVictims(active_containers, loc[r].footprint, TOTAL_GPU_VRAM)
         containers_to_evict ==
           IF pc[r] = "in_662" THEN plan[1] ELSE Keys(active_containers)
     IN loc' = [loc EXCEPT
                  ![r].containers_to_evict = containers_to_evict,
                  ![r].to_stop = containers_to_evict,
                  ![r].current_vram_usage = IF pc[r] = "in_662" THEN plan[2] ELSE 0,
                  ![r].container_name =
                     IF pc[r] = "in_662" THEN FreeSlot(active_containers) ELSE @]
  /\ model_management_lock' = 0
  /\ pc' = [pc EXCEPT ![r] = "stops"]
  /\ UNCHANGED <<config, now, body, store, start_locks, dl_locks, docker, faults,
                 active_containers, status, routed, reaper>>

\* A stop_container that drops the name from the registry without the lock.
StopsAndForgets(r) ==
  /\ Runs(r)
  /\ pc[r] = "stops"
  /\ model_management_lock' = model_management_lock
  /\ IF loc[r].to_stop # <<>>
     THEN \E failed \in FaultSets(docker, {Head(loc[r].to_stop)}, faults) :
            /\ docker' = StopDocker(docker, {Head(loc[r].to_stop)}, failed)
            /\ faults' = faults + Cardinality(failed)
            /\ active_containers' =
                 DictDel(active_containers, {Head(loc[r].to_stop)})
            /\ loc' = [loc EXCEPT ![r].to_stop = Tail(@)]
            /\ pc' = pc
            /\ UNCHANGED <<status, start_holder>>
     ELSE IF loc[r].failure = "timeout"
          THEN /\ Fail500(r, Target(r), loc[r])
               /\ UNCHANGED <<docker, faults, active_containers>>
          ELSE /\ pc' = [pc EXCEPT ![r] =
                           IF loc[r].branch = "discovery" THEN "L620" ELSE "launch"]
               /\ loc' = [loc EXCEPT ![r].container_name =
                            IF loc[r].branch = "fallback" THEN 0 ELSE @]
               /\ UNCHANGED <<docker, faults, status, start_holder, active_containers>>
  /\ UNCHANGED <<config, now, body, store, container_start_locks, start_waiters,
                 dl_locks, routed, reaper>>

\* for name in ...: await stop_container(name), up to its lock block; after
\* the last name the discovery reads vram_before and the launch begins (the
\* fallback names its container "_0").  The stop_container of the probe
\* deadline is followed by "return None".
Stops(r) ==
  /\ Runs(r)
  /\ pc[r] = "stops"
  /\ model_management_lock' = model_management_lock
  /\ IF loc[r].to_stop # <<>>
     THEN \E failed \in FaultSets(docker, {Head(loc[r].to_stop)}, faults) :
            /\ docker' = StopDocker(docker, {Head(loc[r].to_stop)}, failed)
            /\ faults' = faults + Cardinality(failed)
            /\ pc' = [pc EXCEPT ![r] = "L351"]
            /\ UNCHANGED <<loc, status, start_holder>>
     ELSE IF loc[r].failure = "timeout"
          THEN /\ Fail500(r, Target(r), loc[r])
               /\ UNCHANGED <<docker, faults>>
          ELSE /\ pc' = [pc EXCEPT ![r] =
                           IF loc[r].branch = "discovery" THEN "L620" ELSE "launch"]
               /\ loc' = [loc EXCEPT ![r].container_name =
                            IF loc[r].branch = "fallback" THEN 0 ELSE @]
               /\ UNCHANGED <<docker, faults, status, start_holder>>
  /\ UNCHANGED <<config, now, body, store, container_start_locks, start_waiters,
                 dl_locks, active_containers, routed, reaper>>

\* if container_name in active_containers: del active_containers[container_name]
Forget(r) ==
  /\ Runs(r)
  /\ pc[r] = "in_351"
  /\ model_management_lock = r
  /\ active_containers' = DictDel(active_containers, {Head(loc[r].to_stop)})
  /\ loc' = [loc EXCEPT ![r].to_stop = Tail(@)]
  /\ model_management_lock' = 0
  /\ pc' = [pc EXCEPT ![r] = "stops"]
  /\ UNCHANGED <<config, now, body, store, start_locks, dl_locks, docker, faults,
                 status, routed, reaper>>

\* vram_before = get_used_vram(); container_name = f"{prefix}_0"
ReadBefore(r) ==
  /\ Runs(r)
  /\ pc[r] = "L620"
  /\ \E rd \in Readings(docker, faults) :
       /\ loc' = [loc EXCEPT ![r].vram_before = rd[1], ![r].container_name = 0]
       /\ faults' = rd[2]
  /\ pc' = [pc EXCEPT ![r] = "launch"]
  /\ UNCHANGED <<config, now, body, store, start_locks, dl_locks, docker,
                 active_containers, status, routed, model_management_lock, reaper>>

\* start_model_container: the cleanup of a container found under the target
\* name (app.py:386-416), then on to the GGUF download or to config.json.
RemoveStale(r) ==
  /\ Runs(r)
  /\ pc[r] = "launch"
  /\ LET name == loc[r].container_name
         onward == IF is_gguf_repo(Target(r)) THEN "L424" ELSE "maxlen"
     IN IF ~Present(docker, name)
        THEN /\ pc' = [pc EXCEPT ![r] = onward]
             /\ UNCHANGED <<docker, faults, loc, status, start_holder>>
        ELSE \/ /\ docker' = [docker EXCEPT ![name] = NoContainer]
                /\ pc' = [pc EXCEPT ![r] = onward]
                /\ UNCHANGED <<faults, loc, status, start_holder>>
             \/ /\ faults < MaxFaults
                /\ faults' = faults + 1
                /\ Fail500(r, Target(r), [loc[r] EXCEPT !.failure = "remove"])
                /\ UNCHANGED docker
             \/ /\ faults < MaxFaults
                /\ faults' = faults + 1
                /\ pc' = [pc EXCEPT ![r] = "poll"]
                /\ loc' = [loc EXCEPT ![r].stale = docker[name].cid]
                /\ UNCHANGED <<docker, status, start_holder>>
  /\ UNCHANGED <<config, now, body, store, container_start_locks, start_waiters,
                 dl_locks, active_containers, routed, model_management_lock, reaper>>

\* The poll loop of the cleanup, resumed after its sleeps.
PollStale(r) ==
  /\ Runs(r)
  /\ pc[r] = "poll"
  /\ LET name == loc[r].container_name
     IN \/ /\ \/ ~Present(docker, name)
              \/ docker[name].cid = loc[r].stale
           /\ docker' = [docker EXCEPT ![name] = NoContainer]
           /\ pc' = [pc EXCEPT ![r] =
                       IF is_gguf_repo(Target(r)) THEN "L424" ELSE "maxlen"]
           /\ UNCHANGED <<loc, status, start_holder>>
        \/ /\ Fail500(r, Target(r), [loc[r] EXCEPT !.failure = "stale"])
           /\ UNCHANGED docker
  /\ UNCHANGED <<config, now, body, store, container_start_locks, start_waiters,
                 dl_locks, faults, active_containers, routed,
                 model_management_lock, reaper>>

\* if model_id not in download_locks: ... = asyncio.Lock(); the lock is left
\* and "async with download_lock" entered: run_in_executor suspends.
CreateDownloadLock(r) ==
  /\ Runs(r)
  /\ pc[r] = "in_424"
  /\ model_management_lock = r
  /\ download_holder[Target(r)] = 0
  /\ download_locks' = download_locks \cup {Target(r)}
  /\ download_holder' = [download_holder EXCEPT ![Target(r)] = r]
  /\ model_management_lock' = 0
  /\ pc' = [pc EXCEPT ![r] = "download"]
  /\ UNCHANGED <<config, now, body, store, start_locks, docker, faults,
                 active_containers, status, routed, loc, reaper>>

\* The health loop answers 200: start_model_container returns the instance.
Healthy(r) ==
  /\ Runs(r)
  /\ pc[r] = "probe"
  /\ CanLoad(r)
  /\ docker' = [docker EXCEPT ![loc[r].container_name].healthy = TRUE]
  /\ pc' = [pc EXCEPT ![r] =
              IF loc[r].branch = "discovery" THEN "sample"
              ELSE IF loc[r].branch = "known" THEN "L690" ELSE "L713"]
  /\ UNCHANGED <<config, now, body, store, start_locks, dl_locks, faults,
                 active_containers, status, routed, loc,
                 model_management_lock, reaper>>

\* 1800 probes without a 200: on to stop_container(container_name).
Deadline(r) ==
  /\ Runs(r)
  /\ pc[r] = "probe"
  /\ faults' = IF CanLoad(r) THEN faults + 1 ELSE faults     \* an engine that hangs
  /\ faults' <= MaxFaults
  /\ loc' = [loc EXCEPT ![r].failure = "timeout",
                        ![r].to_stop = <<loc[r].container_name>>]
  /\ pc' = [pc EXCEPT ![r] = "stops"]
  /\ UNCHANGED <<config, now, body, store, start_locks, dl_locks, docker,
                 active_containers, status, routed, model_management_lock, reaper>>

\* The footprint the discovery measured, 0 when it is not plausible.
Measured(lr) ==
  LET measured_vram == MaxOf(lr.vram_samples) - lr.vram_before
  IN IF Plausible(measured_vram) THEN measured_vram ELSE 0

\* One sample of the discovery; after the third the footprint is stored and
\* the run stands before "async with model_management_lock" (app.py:655).
Measure(r) ==
  /\ Runs(r)
  /\ pc[r] = "sample"
  /\ \E rd \in Readings(docker, faults) :
       LET vram_samples == Append(loc[r].vram_samples, rd[1])
           measured_vram == MaxOf(vram_samples) - loc[r].vram_before
       IN /\ loc' = [loc EXCEPT ![r].vram_samples = vram_samples]
          /\ IF Len(vram_samples) < 3
             THEN /\ faults' = rd[2]
                  /\ UNCHANGED <<pc, store>>
             ELSE /\ pc' = [pc EXCEPT ![r] = "L655"]
                  /\ IF Plausible(measured_vram)
                     THEN /\ known_footprints' =
                               Remember(known_footprints, Target(r), measured_vram)
                          /\ \/ /\ footprint_file' = known_footprints'
                                /\ faults' = rd[2]
                             \/ /\ rd[2] < MaxFaults
                                /\ faults' = rd[2] + 1
                                /\ UNCHANGED footprint_file
                     ELSE /\ faults' = rd[2]
                          /\ UNCHANGED store
  /\ UNCHANGED <<config, now, body, start_locks, dl_locks, docker,
                 active_containers, status, routed, model_management_lock, reaper>>

\* active_containers[container_name] = target_container, inside the lock.
Insert(r) ==
  /\ Runs(r)
  /\ pc[r] \in {"in_655", "in_690", "in_713"}
  /\ model_management_lock = r
  /\ active_containers' =
       DictSet(active_containers,
               ContainerState(Target(r), loc[r].container_name, r, now,
                              IF pc[r] = "in_655" THEN Measured(loc[r])
                              ELSE IF pc[r] = "in_690" THEN loc[r].footprint ELSE 0))
  /\ routed' = [routed EXCEPT ![r] = [name |-> loc[r].container_name, cid |-> r]]
  /\ model_management_lock' = 0
  /\ pc' = [pc EXCEPT ![r] = "L716"]
  /\ UNCHANGED <<config, now, body, store, start_locks, dl_locks, docker, faults,
                 status, loc, reaper>>

\* "async with per_model_lock" is left with an instance in hand.
LeaveStartLock(r) ==
  /\ Runs(r)
  /\ pc[r] = "L716"
  /\ start_holder' = [start_holder EXCEPT ![LockOf(Target(r))] = 0]
  /\ pc' = [pc EXCEPT ![r] = "L721"]
  /\ UNCHANGED <<config, now, body, store, container_start_locks, start_waiters,
                 dl_locks, docker, faults, active_containers, status, routed, loc,
                 model_management_lock, reaper>>

\* target_container.last_request_time = time.time() (app.py:721): the object
\* is the registry's entry; the request goes to be forwarded.
TouchTarget(r) ==
  /\ Runs(r)
  /\ pc[r] = "L721"
  /\ active_containers' =
       [i \in DOMAIN active_containers |->
          IF /\ active_containers[i].container_name = routed[r].name
             /\ active_containers[i].cid = routed[r].cid
          THEN [active_containers[i] EXCEPT !.last_request_time = now]
          ELSE active_containers[i]]
  /\ pc' = [pc EXCEPT ![r] = "forward"]
  /\ UNCHANGED <<config, now, body, store, start_locks, dl_locks, docker, faults,
                 status, routed, loc, model_management_lock, reaper>>

(***************************************************************************)
(* shutdown_inactive_containers, statement by statement.                   *)
(***************************************************************************)
\* asyncio.sleep(60) returns; "continue" when the timeout is disabled.
ReaperWakes ==
  /\ Runs(ReaperTask)
  /\ reaper.pc = "sleep"
  /\ reaper' = IF VLLM_INACTIVITY_TIMEOUT <= 0 THEN reaper
               ELSE [reaper EXCEPT !.pc = "L322"]
  /\ UNCHANGED <<config, now, body, store, start_locks, dl_locks, docker, faults,
                 active_containers, pc, status, routed, loc, model_management_lock>>

\* async with model_management_lock, in the reaper and in its stop_container.
ReaperEnters ==
  /\ Runs(ReaperTask)
  /\ reaper.pc \in {"L322", "L351"}
  /\ model_management_lock = 0
  /\ model_management_lock' = ReaperTask
  /\ reaper' = [reaper EXCEPT !.pc = IF @ = "L322" THEN "in_322" ELSE "in_351"]
  /\ UNCHANGED <<config, now, body, store, start_locks, dl_locks, docker, faults,
                 active_containers, pc, status, routed, loc>>

\* inactive_containers = [name for name, state in active_containers.items() ...]
ReaperScans ==
  /\ Runs(ReaperTask)
  /\ reaper.pc = "in_322"
  /\ model_management_lock = ReaperTask
  /\ reaper' = [pc |-> "stops",
                inactive_containers |-> Keys(SelectSeq(active_containers, Idle))]
  /\ model_management_lock' = 0
  /\ UNCHANGED <<config, now, body, store, start_locks, dl_locks, docker, faults,
                 active_containers, pc, status, routed, loc>>

\* for container_name in inactive_containers: await stop_container(...)
ReaperStops ==
  /\ Runs(ReaperTask)
  /\ reaper.pc = "stops"
  /\ IF reaper.inactive_containers = <<>>
     THEN /\ reaper' = Asleep
          /\ UNCHANGED <<docker, faults>>
     ELSE \E failed \in FaultSets(docker, {Head(reaper.inactive_containers)}, faults) :
            /\ docker' = StopDocker(docker, {Head(reaper.inactive_containers)}, failed)
            /\ faults' = faults + Cardinality(failed)
            /\ reaper' = [reaper EXCEPT !.pc = "L351"]
  /\ UNCHANGED <<config, now, body, store, start_locks, dl_locks,
                 active_containers, pc, status, routed, loc, model_management_lock>>

ReaperForgets ==
  /\ Runs(ReaperTask)
  /\ reaper.pc = "in_351"
  /\ model_management_lock = ReaperTask
  /\ active_containers' =
       DictDel(active_containers, {Head(reaper.inactive_containers)})
  /\ reaper' = [pc |-> "stops",
                inactive_containers |-> Tail(reaper.inactive_containers)]
  /\ model_management_lock' = 0
  /\ UNCHANGED <<config, now, body, store, start_locks, dl_locks, docker, faults,
                 pc, status, routed, loc>>

\* Time passes while every task is suspended.
Elapse == Runs(0) /\ reaper.pc = "sleep" /\ Tick

LockInit == InitWith(MaxReq)

LockNext ==
  \/ \E r \in Requests : Receive(r)
  \/ \E r \in Requests : EnterLock(r)
  \/ \E r \in Requests : CreateStartLock(r)
  \/ \E r \in Requests : TakeStartLock(r)
  \/ \E r \in Requests : Wake(r)
  \/ \E r \in Requests : Decide(r)
  \/ \E r \in Requests : Plan(r)
  \/ \E r \in Requests : Stops(r)
  \/ \E r \in Requests : Forget(r)
  \/ \E r \in Requests : ReadBefore(r)
  \/ \E r \in Requests : RemoveStale(r)
  \/ \E r \in Requests : PollStale(r)
  \/ \E r \in Requests : CreateDownloadLock(r)
  \/ \E r \in Requests : Runs(r) /\ Download(r)
  \/ \E r \in Requests : Runs(r) /\ Create(r)
  \/ \E r \in Requests : Healthy(r)
  \/ \E r \in Requests : Deadline(r)
  \/ \E r \in Requests : Measure(r)
  \/ \E r \in Requests : Insert(r)
  \/ \E r \in Requests : LeaveStartLock(r)
  \/ \E r \in Requests : TouchTarget(r)
  \/ \E r \in Requests : Runs(r) /\ Forward(r)
  \/ ReaperWakes
  \/ ReaperEnters
  \/ ReaperScans
  \/ ReaperStops
  \/ ReaperForgets
  \/ Elapse

LockSpec == LockInit /\ [][LockNext]_vars

(***************************************************************************)
(* The gateway in service: earlier requests have been answered and have    *)
(* left instances behind.  The registry holds at most two of the three     *)
(* models, under any of the names and in any of the insertion orders that  *)
(* evictions and launches produce, each with the footprint it was          *)
(* registered with: the one of the store, or 0 after a measurement that    *)
(* gave nothing (the store then has no entry).  The store has, for the     *)
(* other models, the model's footprint or a footprint read from a file     *)
(* that was written for a larger GPU (a cold store is what Spec and        *)
(* RaceSpec start from).                                                   *)
(***************************************************************************)
WarmSlots == 0..(Cardinality(ModelIds) - 1)

WarmEntries ==
  {ContainerState(m, n, MaxRaceReq + 1 + n, t, v) :
     m \in ModelIds, n \in WarmSlots, t \in {0, MaxTime}, v \in {0, 1}}

\* The registry is a dict of distinct names with one instance per model.
WarmRegistries ==
  {<<>>}
  \cup {<<e>> : e \in WarmEntries}
  \cup {reg \in WarmEntries \X WarmEntries :
          /\ reg[1].container_name # reg[2].container_name
          /\ reg[1].model_id # reg[2].model_id}

\* The footprints a model that is not registered may have in the store.
WarmFootprints(m, total) == {TrueVram[m], total + 1}

WarmInit ==
  /\ nreq = MaxReq
  /\ TOTAL_GPU_VRAM \in TotalVramChoices \ {0}
  /\ VLLM_INACTIVITY_TIMEOUT \in TimeoutChoices \ {0}
  /\ \E shape \in WarmRegistries :
       \* v = 1: registered with the model's footprint
       /\ active_containers =
            [i \in DOMAIN shape |->
               [shape[i] EXCEPT !.vram_footprint =
                  IF @ = 1 THEN TrueVram[shape[i].model_id] ELSE 0]]
       /\ docker = [n \in Slots |->
            IF \E i \in DOMAIN shape : shape[i].container_name = n
            THEN LET i == CHOOSE i \in DOMAIN shape : shape[i].container_name = n
                 IN [model |-> shape[i].model_id, cid |-> shape[i].cid,
                     healthy |-> TRUE]
            ELSE NoContainer]
       /\ GpuUsed(docker) <= TOTAL_GPU_VRAM
       /\ known_footprints \in [ModelIds -> {None, TOTAL_GPU_VRAM + 1}
                                              \cup Range([m \in ModelIds |-> TrueVram[m]])]
       /\ \A m \in ModelIds :
            LET i == FindByModel(active_containers, m)
            IN IF i = 0
               THEN known_footprints[m] \in WarmFootprints(m, TOTAL_GPU_VRAM)
               ELSE known_footprints[m] =
                      IF active_containers[i].vram_footprint > 0
                      THEN active_containers[i].vram_footprint ELSE None
       /\ container_start_locks = {LockOf(shape[i].model_id) : i \in DOMAIN shape}
       /\ download_locks = {shape[i].model_id : i \in
                              {k \in DOMAIN shape : is_gguf_repo(shape[k].model_id)}}
  /\ footprint_file = known_footprints
  /\ start_holder = [m \in ModelIds |-> 0]
  /\ start_waiters = [m \in ModelIds |-> <<>>]
  /\ download_holder = [m \in ModelIds |-> 0]
  /\ now = MaxTime
  /\ faults = 0
  /\ pc = [r \in Requests |-> "new"]
  /\ body = [r \in Requests |-> NoJson]
  /\ status = [r \in Requests |-> 0]
  /\ routed = [r \in Requests |-> NoRoute]
  /\ loc = [r \in Requests |-> NoLocals]
  /\ model_management_lock = 0
  /\ reaper = Asleep

WarmSpec == WarmInit /\ [][Next]_vars

\* Three requests: the interleavings that need a third party.
RaceInit == InitWith(MaxRaceReq)

RaceSpec == RaceInit /\ [][Next]_vars

\* The reaper disabled: VLLM_INACTIVITY_TIMEOUT is 0 or negative.
ReaperOffInit ==
  /\ nreq = MaxReq
  /\ TOTAL_GPU_VRAM \in TotalVramChoices
  /\ VLLM_INACTIVITY_TIMEOUT \in {-1, 0}
  /\ known_footprints = StartupFootprints
  /\ footprint_file = StartupFootprints
  /\ active_containers = <<>>
  /\ container_start_locks = {}
  /\ start_holder = [m \in ModelIds |-> 0]
  /\ start_waiters = [m \in ModelIds |-> <<>>]
  /\ download_locks = {}
  /\ download_holder = [m \in ModelIds |-> 0]
  /\ docker = [n0 \in Slots |-> NoContainer]
  /\ now = 0
  /\ faults = 0
  /\ pc = [r \in Requests |-> "new"]
  /\ body = [r \in Requests |-> NoJson]
  /\ status = [r \in Requests |-> 0]
  /\ routed = [r \in Requests |-> NoRoute]
  /\ loc = [r \in Requests |-> NoLocals]
  /\ model_management_lock = 0
  /\ reaper = Asleep

ReaperOffSpec == ReaperOffInit /\ [][Next]_vars


(***************************************************************************)
(* Vocabulary of the properties.                                           *)
(***************************************************************************)
\* r is inside the admission flow: past the re-check, not yet registered
InAdmission(r) == pc[r] \in {"poll", "download", "maxlen", "probe", "sample"}
\* r's launch is in progress
Launching(r) == pc[r] \in {"poll", "download", "maxlen", "probe"}
\* r launched its model and went on to forward
Launched(r) ==
  /\ loc[r].branch \in {"discovery", "known", "fallback"}
  /\ \/ pc[r] = "forward"
     \/ pc[r] = "done" /\ status[r] \in {200, 422, 503}
\* this step is a step of request r
StepOf(r) == pc'[r] # pc[r] \/ loc'[r] # loc[r]

(***************************************************************************)
(* C1.  In every reachable state of the registry no two registered         *)
(* instances have the same model_id and no two have the same container     *)
(* name (slot index).                                                      *)
(***************************************************************************)
C1_RegistryUnique ==
  \A i, j \in DOMAIN active_containers :
    i # j => /\ active_containers[i].model_id # active_containers[j].model_id
             /\ active_containers[i].container_name
                  # active_containers[j].container_name

\* two instances registered side by side while a third request arrived
C1_Witness ==
  /\ Len(active_containers) = 2
  /\ \E r \in Requests : loc[r].branch = "rehit"

(***************************************************************************)
(* C2.  Whenever total_vram > 0 and every registered instance has          *)
(* vram_mib > 0, the vram_mib of the registered instances sum to at most   *)
(* total_vram.                                                             *)
(***************************************************************************)
C2_VramWithinBudget ==
  (/\ TOTAL_GPU_VRAM > 0
   /\ \A i \in DOMAIN active_containers :
        active_containers[i].vram_footprint > 0)
  => SumVram(active_containers) <= TOTAL_GPU_VRAM

(* C3: of two concurrent requests for one model with no registered       *)
(* instance, the second waits on the StartLock behind the first, and once *)
(* the first has completed its launch the second's re-check finds the     *)
(* instance: the second launches nothing and is forwarded to the instance *)
(* the first created.                                                     *)
C3_OneLaunch ==
  \A r1, r2 \in Requests :
    (/\ loc[r2].behind = r1
     /\ Launched(r1)
     /\ pc[r2] \notin {"new", "wait"})
    => /\ loc[r2].branch = "rehit"
       /\ pc[r2] = "forward" => routed[r2].cid = r1

(* C4: at most one request at a time is inside the admission flow of a    *)
(* model: a request is between its admission decision and the insert of   *)
(* its instance (or the failure of its launch) only while it holds the    *)
(* model's StartLock, and it holds the lock at no other time.             *)
C4_OneAdmissionPerModel ==
  /\ \A r \in Requests :
       IF InAdmission(r)
       THEN start_holder[LockOf(Target(r))] = r
       ELSE \A m \in ModelIds : start_holder[m] # r
  /\ \A r1, r2 \in Requests :
       (r1 # r2 /\ InAdmission(r1) /\ InAdmission(r2)) => Target(r1) # Target(r2)

C4_Witness ==
  \E r1, r2 \in Requests :
    /\ pc[r1] = "sample"
    /\ pc[r2] = "wait"
    /\ Target(r2) = Target(r1)

(* C5: admissions of different models do not wait for each other: a       *)
(* request holds no StartLock but its own model's, and a waiting request  *)
(* queues only on its own model's lock, behind requests for that model.   *)
C5_NoCrossModelWait ==
  \A r \in Requests, m \in ModelIds :
    /\ start_holder[m] = r => m = Target(r)
    /\ r \in Range(start_waiters[m]) =>
         /\ m = Target(r)
         /\ start_holder[m] # 0 => Target(start_holder[m]) = Target(r)

C5_Witness ==
  \E r1, r2 \in Requests :
    /\ Launching(r1) /\ Launching(r2)
    /\ Target(r1) # Target(r2)
    /\ start_holder[Target(r1)] = r1
    /\ start_holder[Target(r2)] = r2
    /\ start_waiters[Target(r1)] = <<>> /\ start_waiters[Target(r2)] = <<>>

\* Request r goes past the optimistic check or the re-check in this step.
Checks(r) == pc[r] \in {"new", "wait"} /\ pc'[r] \notin {"new", "wait"}

\* The model request r names (in this step, if it arrives in it) is registered.
Registered(r) ==
  /\ body'[r] \in Aliases
  /\ \E i \in DOMAIN active_containers :
       active_containers[i].model_id = ALLOWED_MODELS[body'[r]]

\* The registry entries but for their last_request_time.
Entries(reg) == [i \in DOMAIN reg |-> [reg[i] EXCEPT !.last_request_time = 0]]

(* C6: a request for a model that has a registered instance is routed to  *)
(* that instance by the optimistic check or by the re-check; from there   *)
(* to its answer it stops, removes and creates no container and leaves    *)
(* the registry entries as they are (but for the time of last use).       *)
C6_HitIsPure ==
  [][\A r \in Requests :
       /\ (Checks(r) /\ Registered(r)) =>
            /\ pc'[r] = "forward"
            /\ \E i \in DOMAIN active_containers :
                 /\ active_containers[i].model_id = ALLOWED_MODELS[body'[r]]
                 /\ routed'[r].name = active_containers[i].container_name
                 /\ routed'[r].cid = active_containers[i].cid
            /\ docker' = docker
            /\ Entries(active_containers') = Entries(active_containers)
            /\ start_holder' = start_holder
       /\ (StepOf(r) /\ loc[r].branch \in {"hit", "rehit"} /\ pc[r] = "forward") =>
            /\ docker' = docker
            /\ active_containers' = active_containers]_vars

C6_Witness ==
  \E r1, r2 \in Requests :
    /\ loc[r1].branch = "hit" /\ status[r1] = 200
    /\ loc[r2].branch = "rehit" /\ status[r2] = 200

(* C7: the admission of a model whose footprint is in the footprint store *)
(* (total VRAM known) takes the known-footprint branch: it leaves the     *)
(* registry alone when the model fits and otherwise drops a prefix of the *)
(* least recently used entries, never all entries unconditionally; until  *)
(* its answer the request takes no VRAM sample and writes neither the     *)
(* footprint store nor its file.                                          *)
C7_KnownNeverDiscovers ==
  [][\A r \in Requests :
       /\ (/\ Checks(r) /\ ~Registered(r) /\ body'[r] \in Aliases
           /\ TOTAL_GPU_VRAM > 0
           /\ known_footprints[ALLOWED_MODELS[body'[r]]] # None) =>
            LET footprint == known_footprints[ALLOWED_MODELS[body'[r]]]
                sorted == SortedByTime(active_containers)
                Drop(k) == DictDel(active_containers,
                                   {sorted[i].container_name : i \in 1..k})
            IN /\ loc'[r].branch = "known"
               /\ loc'[r].vram_samples = <<>>
               /\ \E k \in 0..Len(sorted) :
                    /\ active_containers' = Drop(k)
                    /\ k > 0 => SumVram(Drop(k - 1)) + footprint > TOTAL_GPU_VRAM
       /\ (StepOf(r) /\ loc'[r].branch = "known") =>
            /\ pc'[r] # "sample"
            /\ known_footprints' = known_footprints
            /\ footprint_file' = footprint_file]_vars

C7_Witness ==
  \E r \in Requests :
    /\ loc[r].branch = "known"
    /\ Len(loc[r].containers_to_evict) = 1
    /\ Len(active_containers) = 2
    /\ pc[r] = "forward"

(* C8: with an inactivity timeout > 0, once requests have ceased and the  *)
(* reaper task keeps being scheduled, the registry eventually is empty    *)
(* and stays empty.                                                       *)
C8_ReaperEmpties ==
  VLLM_INACTIVITY_TIMEOUT > 0 => <>[](active_containers = <<>>)

\* The only request that launched was answered by its instance, and the
\* registry is empty again: a sweep has dropped the instance.
C8_Witness ==
  /\ VLLM_INACTIVITY_TIMEOUT > 0
  /\ status[1] = 200 /\ status[2] = 400
  /\ active_containers = <<>>
  /\ \A n \in Slots : ~Present(docker, n)

C10_ExactFitNoEviction ==
  [][\A r \in Requests :
       /\ (/\ Checks(r) /\ ~Registered(r) /\ body'[r] \in Aliases
           /\ TOTAL_GPU_VRAM > 0
           /\ known_footprints[ALLOWED_MODELS[body'[r]]] # None
           /\ SumVram(active_containers)
                + known_footprints[ALLOWED_MODELS[body'[r]]] = TOTAL_GPU_VRAM) =>
            /\ active_containers' = active_containers
            /\ \A n \in Range(Keys(active_containers)) : docker'[n] = docker[n]
            /\ pc'[r] \in {"maxlen", "download", "poll", "done"}
       /\ (pc[r] = "probe" /\ pc'[r] = "forward" /\ loc[r].branch = "known") =>
            \E i \in DOMAIN active_containers' :
              /\ active_containers'[i].model_id = Target(r)
              /\ active_containers'[i].container_name = loc[r].container_name
              /\ active_containers'[i].vram_footprint = loc[r].footprint]_vars

C10_Witness ==
  \E r \in Requests :
    /\ loc[r].branch = "known" /\ pc[r] = "forward"
    /\ loc[r].containers_to_evict = <<>>
    /\ loc[r].current_vram_usage > 0
    /\ loc[r].current_vram_usage + loc[r].footprint = TOTAL_GPU_VRAM
    /\ Len(active_containers) = 2
    /\ SumVram(active_containers) = TOTAL_GPU_VRAM

(* C12: when the third sample of a discovery run gives a measured         *)
(* footprint of 256 MiB or less (zero and negative included), the         *)
(* instance is inserted into the registry with vram_footprint 0, the      *)
(* request is routed to it, and neither the footprint store nor its file  *)
(* is written.                                                            *)
C12_SmallMeasurementKept ==
  [][\A r \in Requests :
       (/\ pc[r] = "sample" /\ pc'[r] # "sample"
        /\ MaxOf(loc'[r].vram_samples) - loc[r].vram_before <= 256) =>
          /\ pc'[r] = "forward"
          /\ \E i \in DOMAIN active_containers' :
               /\ active_containers'[i].model_id = Target(r)
               /\ active_containers'[i].container_name = loc[r].container_name
               /\ active_containers'[i].vram_footprint = 0
               /\ routed'[r].name = active_containers'[i].container_name
               /\ routed'[r].cid = active_containers'[i].cid
          /\ known_footprints' = known_footprints
          /\ footprint_file' = footprint_file]_vars

\* A discovery that measured less than nothing has been served.
C12_Witness ==
  \E r \in Requests :
    /\ loc[r].branch = "discovery" /\ status[r] = 200
    /\ known_footprints[Target(r)] = None
    /\ \E i \in DOMAIN active_containers :
         /\ active_containers[i].model_id = Target(r)
         /\ active_containers[i].vram_footprint = 0

\* Request r enters the known-footprint branch in this step, over budget.
OverBudget(r) ==
  /\ Checks(r) /\ ~Registered(r) /\ body'[r] \in Aliases
  /\ TOTAL_GPU_VRAM > 0
  /\ known_footprints[ALLOWED_MODELS[body'[r]]] # None
  /\ SumVram(active_containers) + known_footprints[ALLOWED_MODELS[body'[r]]]
       > TOTAL_GPU_VRAM

(* C11: a known-footprint admission in which the registered footprints    *)
(* plus the model's footprint exceed TOTAL_GPU_VRAM (by 1 MiB or more)    *)
(* evicts at least one registered instance before the launch.             *)
C11_OverBudgetEvicts ==
  [][\A r \in Requests :
       OverBudget(r) => Len(active_containers') < Len(active_containers)]_vars

(* C11 as amended: provided an instance is registered, a known-footprint  *)
(* admission over budget (by 1 MiB or more) drops the least recently used *)
(* entry from the registry in the step that decides, before the container *)
(* of the newcomer is created.                                            *)
C11_OverBudgetEvictsRegistered ==
  [][\A r \in Requests :
       (OverBudget(r) /\ active_containers # <<>>) =>
          LET victim == SortedByTime(active_containers)[1]
          IN /\ Len(active_containers') < Len(active_containers)
             /\ \A i \in DOMAIN active_containers' :
                  active_containers'[i].container_name # victim.container_name
             /\ pc'[r] \in {"poll", "download", "maxlen", "done"}
             /\ \A n \in Slots : Present(docker', n) => Present(docker, n)]_vars

\* An admission exactly 1 MiB over budget has evicted.
C11_Witness ==
  \E r \in Requests :
    /\ loc[r].branch = "known"
    /\ Len(loc[r].containers_to_evict) >= 1
    /\ loc[r].current_vram_usage + loc[r].footprint = TOTAL_GPU_VRAM + 1
    /\ pc[r] \in {"maxlen", "download"}

\* Request r enters the known-footprint branch in this step and goes on to
\* launch.
KnownLaunch(r) ==
  /\ Checks(r) /\ ~Registered(r) /\ body'[r] \in Aliases
  /\ TOTAL_GPU_VRAM > 0
  /\ known_footprints[ALLOWED_MODELS[body'[r]]] # None
  /\ pc'[r] \in {"poll", "download", "maxlen"}

(* C13: a known-footprint admission that evicts launches the newcomer in  *)
(* the smallest slot index that is free once the victims are gone, so     *)
(* that a victim's slot is reused.                                        *)
C13_VictimSlotReused ==
  [][\A r \in Requests :
       (KnownLaunch(r) /\ Len(active_containers') < Len(active_containers)) =>
          loc'[r].container_name = FreeSlot(active_containers')]_vars

(* C14: eviction victims are taken in ascending order of                  *)
(* last_request_time, and of two entries with equal last_request_time the *)
(* one with the lower slot index goes first: every victim of a            *)
(* known-footprint admission is older than every survivor, or as old and  *)
(* in a lower slot.                                                       *)
C14_LruTiesBySlot ==
  [][\A r \in Requests :
       KnownLaunch(r) =>
         \A i \in DOMAIN active_containers, j \in DOMAIN active_containers' :
           LET victim == active_containers[i]
               survivor == active_containers'[j]
           IN (\A k \in DOMAIN active_containers' :
                 active_containers'[k].container_name # victim.container_name)
              => \/ victim.last_request_time < survivor.last_request_time
                 \/ /\ victim.last_request_time = survivor.last_request_time
                    /\ victim.container_name < survivor.container_name]_vars

(* C15: when the launch of a request fails in the discovery, the          *)
(* known-footprint or the fallback branch (the launcher returns None or   *)
(* raises HTTPException(500)), the request is answered 500, the model's   *)
(* StartLock is free again, and the registry has no entry for the model;  *)
(* a request that has been answered holds no StartLock and waits for      *)
(* none, so a later request for the model can take the lock and launch.   *)
C15_FailedLaunchReleases ==
  [][\A r \in Requests :
       /\ (/\ pc[r] \in {"new", "wait", "poll", "download", "maxlen", "probe"}
           /\ pc'[r] = "done" /\ body'[r] \in Aliases) =>
            /\ status'[r] = 500
            /\ loc'[r].branch \in {"discovery", "known", "fallback"}
            /\ loc'[r].failure # "none"
            /\ start_holder'[LockOf(ALLOWED_MODELS[body'[r]])] = 0
            /\ \A i \in DOMAIN active_containers' :
                 active_containers'[i].model_id # ALLOWED_MODELS[body'[r]]
       /\ pc'[r] = "done" =>
            \A m \in ModelIds : start_holder'[m] # r /\ r \notin Range(start_waiters'[m])]_vars

\* The health probe of r1 timed out; r2, which waited behind r1 for the same
\* model, has taken the StartLock and created its container.
C15_Witness ==
  \E r1, r2 \in Requests :
    /\ status[r1] = 500 /\ loc[r1].failure = "timeout"
    /\ loc[r2].behind = r1
    /\ body[r2] = body[r1]
    /\ pc[r2] = "probe"
    /\ start_holder[LockOf(Target(r2))] = r2

(* C16: a failure while forwarding (the engine's own error status, a      *)
(* transport error or a timeout) leaves registry, footprint store, file   *)
(* and containers as they are: the instance stays registered and no       *)
(* container is stopped.                                                  *)
C16_ForwardFailureKeeps ==
  [][\A r \in Requests :
       (pc[r] = "forward" /\ pc'[r] = "done") =>
          /\ status'[r] \in {200, 422, 503}
          /\ active_containers' = active_containers
          /\ docker' = docker
          /\ known_footprints' = known_footprints
          /\ footprint_file' = footprint_file
          /\ start_holder' = start_holder]_vars

\* A transport error and an engine error status, with the instance of the
\* failed request still registered and running.
C16_Witness ==
  \E r \in Requests :
    /\ status[r] \in {422, 503}
    /\ faults >= 1
    /\ \E i \in DOMAIN active_containers :
         /\ active_containers[i].model_id = Target(r)
         /\ docker[active_containers[i].container_name].cid = active_containers[i].cid
         /\ docker[active_containers[i].container_name].healthy

(* C17: a container found under the target name at launch time is stopped *)
(* and force-removed before the new one is created: the launcher goes on  *)
(* only when no container has the name.  When a container is still there  *)
(* after the 10 polls, the launch fails with 500: no container is         *)
(* created, the runtime and the registry stay as they are.                *)
C17_StaleRemovedOrFail ==
  [][\A r \in Requests :
       /\ (pc[r] \in {"new", "wait", "poll"} /\ pc'[r] \in {"download", "maxlen"}) =>
            ~Present(docker', loc'[r].container_name)
       /\ (pc[r] = "maxlen" /\ pc'[r] = "probe") =>
            ~Present(docker, loc[r].container_name)
       /\ (pc[r] = "poll" /\ pc'[r] # "poll"
           /\ Present(docker', loc[r].container_name)) =>
            /\ pc'[r] = "done" /\ status'[r] = 500
            /\ docker' = docker
            /\ active_containers' = active_containers]_vars

\* A launch has given up on a container that would not go away: the
\* container is still there, and nothing is registered.
C17_Witness ==
  \E r \in Requests :
    /\ status[r] = 500 /\ loc[r].failure = "stale"
    /\ \E n \in Slots : Present(docker, n) /\ docker[n].cid # r
    /\ active_containers = <<>>

(* C18: no deadlock.  A request that waits for a StartLock waits for a     *)
(* holder that is inside its admission and waits for no lock itself       *)
(* (registry lock and DownloadLock are never found taken), or for nobody  *)
(* when the lock has just been released; and when launches terminate,     *)
(* every waiting request gets the lock.                                   *)
C18_NoDeadlock ==
  /\ [](\A r \in Requests :
          pc[r] = "wait" =>
            LET h == start_holder[LockOf(Target(r))]
            IN /\ h # r
               /\ r \in Range(start_waiters[LockOf(Target(r))])
               /\ h # 0 => InAdmission(h)
               /\ h = 0 => pc[Head(start_waiters[LockOf(Target(r))])] = "wait")
  /\ [](\A m \in ModelIds :
          download_holder[m] # 0 =>
            /\ pc[download_holder[m]] = "download"
            /\ start_holder[LockOf(m)] = download_holder[m])
  /\ \A r \in Requests : (pc[r] = "wait") ~> (pc[r] # "wait")

\* A request that waited for the StartLock of its model has been served.
C18_Witness ==
  \E r \in Requests :
    /\ loc[r].behind # 0
    /\ status[r] = 200

\* The locks of a kind (start_holder, download_holder) that r holds
Held(holder, r) == {m \in ModelIds : holder[m] = r}

\* r, resumed inside its admission, enters "async with model_management_lock":
\* for the creation of the DownloadLock, for the registration of the
\* instance, or in stop_container after the probe deadline.
EntersManagementLock(r) ==
  \/ pc[r] = "poll" /\ pc'[r] = "download"
  \/ pc[r] \in {"probe", "sample"} /\ pc'[r] = "forward"
  \/ pc[r] = "probe" /\ pc'[r] = "done"

(* C19: locks are acquired in the order registry lock, StartLock,         *)
(* DownloadLock: no request enters the registry lock while it holds a     *)
(* StartLock or a DownloadLock, and none acquires a StartLock while it    *)
(* holds a DownloadLock.                                                  *)
C19_LockOrder ==
  [][\A r \in Requests :
       /\ EntersManagementLock(r) =>
            /\ Held(start_holder, r) = {}
            /\ Held(download_holder, r) = {}
       /\ Held(start_holder', r) \ Held(start_holder, r) # {} =>
            Held(download_holder, r) = {}]_vars

(* C19, as the code has it: the StartLock is the outermost lock.  A       *)
(* request that enters the registry lock inside its admission holds the   *)
(* StartLock of its model and no DownloadLock; a StartLock is acquired    *)
(* with no StartLock and no DownloadLock held; a DownloadLock is acquired *)
(* only by the holder of the StartLock of the same model.                 *)
C19_StartLockOutermost ==
  [][\A r \in Requests :
       /\ EntersManagementLock(r) =>
            /\ Held(start_holder, r) = {LockOf(Target(r))}
            /\ Held(download_holder, r) = {}
       /\ Held(start_holder', r) \ Held(start_holder, r) # {} =>
            /\ Held(start_holder, r) = {}
            /\ Held(download_holder, r) = {}
            /\ Held(start_holder', r) = {LockOf(ALLOWED_MODELS[body'[r]])}
       /\ Held(download_holder', r) \ Held(download_holder, r) # {} =>
            /\ Held(download_holder, r) = {}
            /\ Held(download_holder', r) = {ALLOWED_MODELS[body'[r]]}
            /\ start_holder'[LockOf(ALLOWED_MODELS[body'[r]])] = r]_vars

\* The launch of a GGUF model has gone through the DownloadLock and through
\* the registration under the registry lock, all under its StartLock.
C19_Witness ==
  \E r \in Requests :
    /\ body[r] \in Aliases
    /\ is_gguf_repo(Target(r))
    /\ Target(r) \in download_locks
    /\ loc[r].branch \in {"discovery", "known", "fallback"}
    /\ pc[r] = "forward"
    /\ start_holder[LockOf(Target(r))] = 0

(* C20: with VRAM accounting disabled (TOTAL_GPU_VRAM = 0) the registry   *)
(* holds at most one instance in every reachable state, also when         *)
(* requests for different models are admitted concurrently.               *)
C20_DisabledSingleInstance ==
  TOTAL_GPU_VRAM = 0 => Len(active_containers) <= 1

\* Accounting is disabled; r1 has launched and registered its model while r2,
\* admitted concurrently for another model, is still inside its admission.
C20_Witness ==
  /\ TOTAL_GPU_VRAM = 0
  /\ \E r1, r2 \in Requests :
       /\ Len(active_containers) = 1
       /\ active_containers[1].cid = r1
       /\ loc[r1].branch = "fallback"
       /\ InAdmission(r2)
       /\ loc[r2].branch = "fallback"
       /\ Target(r2) # active_containers[1].model_id

\* r is inside the measurement window of a discovery run: vram_before has
\* been read and the third sample has not been taken yet.
Measuring(r) == loc[r].branch = "discovery" /\ InAdmission(r)

(* C21: a discovery run is cold.  From the reading of vram_before to the  *)
(* third VRAM sample no instance is registered, no other request is       *)
(* launching a container, and no container but the discovered one is in   *)
(* the runtime.                                                           *)
C21_DiscoveryCold ==
  \A r \in Requests :
    Measuring(r) =>
      /\ active_containers = <<>>
      /\ \A q \in Requests \ {r} : ~Launching(q)
      /\ \A n \in Slots : Present(docker, n) => docker[n].cid = r

(* C22: the footprint store is insert-only while the gateway runs.  A     *)
(* model that has a footprint, in memory or in the file, keeps that value *)
(* in every later state, and every value the gateway writes is above 256. *)
C22_StoreInsertOnly ==
  [][\A m \in ModelIds :
       /\ known_footprints[m] # None => known_footprints'[m] = known_footprints[m]
       /\ footprint_file[m] # None => footprint_file'[m] = footprint_file[m]
       /\ known_footprints'[m] # known_footprints[m] =>
            known_footprints'[m] > MinFootprint
       /\ footprint_file'[m] # footprint_file[m] =>
            /\ footprint_file'[m] > MinFootprint
            /\ footprint_file'[m] = known_footprints'[m]]_vars

\* A discovery has added a footprint to the store and to the file, next to
\* the footprints that were loaded at startup.
C22_Witness ==
  \E m \in ModelIds :
    /\ StartupFootprints[m] = None
    /\ known_footprints[m] > MinFootprint
    /\ footprint_file = known_footprints
    /\ \E x \in ModelIds \ {m} :
         StartupFootprints[x] # None /\ known_footprints[x] = StartupFootprints[x]

(* C23: the slot of a known-footprint admission is the smallest           *)
(* non-negative integer that is not the slot of an instance registered    *)
(* when the slot is chosen (the victims of the admission are still        *)
(* registered then); a slot that was freed below the registered ones is   *)
(* taken again.                                                           *)
C23_SmallestFreeSlot ==
  [][\A r \in Requests :
       KnownLaunch(r) =>
         LET slot_indices ==
               {active_containers[i].container_name : i \in DOMAIN active_containers}
             free_slot == loc'[r].container_name
         IN /\ free_slot \in Nat
            /\ free_slot \notin slot_indices
            /\ \A j \in 0..(free_slot - 1) : j \in slot_indices]_vars

\* Slot 0 was freed while slot 1 stayed registered, and a known-footprint
\* admission that evicts nothing has taken slot 0 again.
C23_Witness ==
  \E r \in Requests :
    /\ loc[r].branch = "known"
    /\ InAdmission(r)
    /\ loc[r].containers_to_evict = <<>>
    /\ loc[r].container_name = 0
    /\ \E i \in DOMAIN active_containers : active_containers[i].container_name = 1
    /\ \A i \in DOMAIN active_containers : active_containers[i].container_name # 0

(* C24: the victims of a known-footprint admission are the shortest       *)
(* prefix of the registry in LRU order after whose removal the remaining  *)
(* footprints plus the newcomer's fit in TOTAL_GPU_VRAM, or the whole     *)
(* registry when no prefix is enough; none when the model fits as things  *)
(* are.  An instance of footprint 0 inside the prefix is evicted like the *)
(* others.                                                                *)
C24_ShortestLruPrefix ==
  [][\A r \in Requests :
       KnownLaunch(r) =>
         LET sorted_containers == SortedByTime(active_containers)
             footprint == known_footprints[ALLOWED_MODELS[body'[r]]]
             Fits(k) ==
               SumVram(SubSeq(sorted_containers, k + 1, Len(sorted_containers)))
                 + footprint <= TOTAL_GPU_VRAM
             containers_to_evict == loc'[r].containers_to_evict
             k == Len(containers_to_evict)
         IN /\ k <= Len(sorted_containers)
            /\ containers_to_evict =
                 [i \in 1..k |-> sorted_containers[i].container_name]
            /\ \A j \in 0..(k - 1) : ~Fits(j)
            /\ k < Len(sorted_containers) => Fits(k)
            /\ LET Stays(e) == e.container_name \notin Range(containers_to_evict)
               IN active_containers' = SelectSeq(active_containers, Stays)]_vars

\* The only request so far has evicted the two registered instances, the
\* older of which had footprint 0 (its model has no footprint in the store).
C24_Witness ==
  \E r \in Requests :
    /\ loc[r].branch = "known"
    /\ InAdmission(r)
    /\ Len(loc[r].containers_to_evict) = 2
    /\ loc[r].current_vram_usage = 0
    /\ \E m \in ModelIds \ {Target(r)} : known_footprints[m] = None
    /\ \A q \in Requests \ {r} : pc[q] = "new"
    /\ active_containers = <<>>

(* C25: in a discovery run whose launch succeeded, measured is the        *)
(* largest of the three samples minus vram_before.  When measured > 256   *)
(* the footprint store maps the model to measured and the instance is     *)
(* registered in slot 0 with that footprint; an admission of a model that *)
(* has a stored footprint takes the known-footprint branch with the       *)
(* stored value.                                                          *)
C25_DiscoveryRecords ==
  [][\A r \in Requests :
       /\ (pc[r] = "sample" /\ pc'[r] # "sample") =>
            LET vram_samples == loc'[r].vram_samples
                largest == CHOOSE x \in Range(vram_samples) :
                             \A y \in Range(vram_samples) : y <= x
                measured == largest - loc[r].vram_before
            IN /\ Len(vram_samples) = 3
               /\ measured > 256 =>
                    /\ known_footprints'[Target(r)] = measured
                    /\ \E i \in DOMAIN active_containers' :
                         /\ active_containers'[i].model_id = Target(r)
                         /\ active_containers'[i].container_name = 0
                         /\ active_containers'[i].vram_footprint = measured
                         /\ active_containers'[i].cid = r
       /\ KnownLaunch(r) =>
            /\ loc'[r].branch = "known"
            /\ loc'[r].footprint = known_footprints[ALLOWED_MODELS[body'[r]]]]_vars

\* The footprint that a discovery of this run measured and stored is the
\* footprint of a later known-footprint admission of the same model.
C25_Witness ==
  \E r1, r2 \in Requests :
    /\ r1 # r2
    /\ body[r1] = body[r2]
    /\ body[r1] \in Aliases
    /\ StartupFootprints[Target(r1)] = None
    /\ loc[r1].branch = "discovery"
    /\ loc[r2].branch = "known"
    /\ InAdmission(r2)
    /\ loc[r2].footprint = known_footprints[Target(r2)]
    /\ loc[r2].footprint > 256

(***************************************************************************)
(* C26.  model_management_lock is never held across a suspension point or  *)
(* an I/O operation: a request that is stopping containers, reading the    *)
(* GPU, cleaning up or launching a container, probing, sampling,           *)
(* downloading, sleeping, waiting or forwarding does not hold it, nor does *)
(* the reaper while it sleeps or stops containers; and a step taken while  *)
(* the lock is held touches neither the container runtime nor the GPU nor  *)
(* the footprint file, and takes no time.                                  *)
(***************************************************************************)
Working(r) ==
  pc[r] \in {"stops", "L620", "launch", "wait", "poll", "download", "maxlen",
             "probe", "sample", "forward"}

C26_LockNotHeldAcrossIO ==
  /\ [](\A r \in Requests : Working(r) => model_management_lock # r)
  /\ [](reaper.pc \in {"sleep", "stops"} => model_management_lock # ReaperTask)
  /\ [][model_management_lock # 0 =>
          /\ docker' = docker
          /\ faults' = faults
          /\ footprint_file' = footprint_file
          /\ now' = now]_vars

\* A request has planned an eviction under the lock and stands before the
\* stop of its first victim, the lock free again.
C26_Witness ==
  \E r \in Requests :
    /\ pc[r] = "stops"
    /\ loc[r].to_stop # <<>>
    /\ loc[r].failure = "none"
    /\ model_management_lock = 0

(***************************************************************************)
(* C27 as stated.  Every registry operation runs while the executing task  *)
(* holds model_management_lock: a step of a request that changes the       *)
(* registry (the touch of last_request_time included) or that searches it  *)
(* for the model (the re-check at app.py:598) is taken by the lock holder. *)
(***************************************************************************)
C27_EveryOperationUnderLock ==
  [][\A r \in Requests :
       (pc'[r] # pc[r] /\ (active_containers' # active_containers \/ pc[r] = "L598"))
         => model_management_lock = r]_vars

(***************************************************************************)
(* C27, amended.  The registry map is mutated (an instance inserted or     *)
(* removed) only in a step of the task that holds model_management_lock;   *)
(* the victims, the VRAM sum and the slot of a known-footprint admission   *)
(* and the reaper's list of idle instances are computed by the lock        *)
(* holder; the search for the model and the touch of last_request_time     *)
(* are done with the lock free.                                            *)
(***************************************************************************)
C27_MapMutatedUnderLock ==
  /\ [][Entries(active_containers') # Entries(active_containers) =>
          \/ \E r \in Requests : model_management_lock = r /\ pc'[r] # pc[r]
          \/ model_management_lock = ReaperTask /\ reaper' # reaper]_vars
  /\ [][\A r \in Requests :
          /\ (/\ pc'[r] # "done"
              /\ \/ loc'[r].containers_to_evict # loc[r].containers_to_evict
                 \/ loc'[r].current_vram_usage # loc[r].current_vram_usage
                 \/ loc'[r].branch = "known"
                      /\ loc'[r].container_name # loc[r].container_name)
               => model_management_lock = r
          /\ (/\ pc'[r] # pc[r]
              /\ \/ pc[r] \in {"new", "L598"}
                 \/ /\ active_containers' # active_containers
                    /\ Entries(active_containers') = Entries(active_containers))
               => model_management_lock = 0]_vars
  /\ [][reaper'.inactive_containers # reaper.inactive_containers =>
          model_management_lock = ReaperTask]_vars

\* A request that found its model running has touched the instance with the
\* lock free, after another request inserted it under the lock.
C27_Witness ==
  \E r \in Requests :
    /\ pc[r] = "forward"
    /\ loc[r].branch \in {"hit", "rehit"}
    /\ model_management_lock = 0
    /\ \E i \in DOMAIN active_containers :
         /\ active_containers[i].cid = routed[r].cid
         /\ active_containers[i].cid # r
         /\ active_containers[i].last_request_time = now
         /\ now > 0

(* C28: the footprint store, in memory and on file, is written only by a  *)
(* request that holds the StartLock of the model whose footprint it       *)
(* writes: every step that changes the store or the file is a step of the *)
(* holder of that lock, the entry that changes in memory is the one of    *)
(* the holder's model, and the file written is the map in memory.         *)
C28_StoreWrittenUnderStartLock ==
  [][(known_footprints' # known_footprints \/ footprint_file' # footprint_file) =>
       \E r \in Requests :
         /\ StepOf(r)
         /\ start_holder[LockOf(Target(r))] = r
         /\ \A q \in Requests \ {r} : ~StepOf(q)
         /\ \A m \in ModelIds \ {Target(r)} :
              known_footprints'[m] = known_footprints[m]
         /\ known_footprints'[Target(r)] # known_footprints[Target(r)]
         /\ footprint_file' # footprint_file => footprint_file' = known_footprints']_vars

\* A discovery has written its footprint and left the StartLock while
\* another request for the same model is still waiting for the lock.
C28_Witness ==
  \E r1, r2 \in Requests :
    /\ loc[r1].branch = "discovery"
    /\ pc[r1] = "forward"
    /\ known_footprints[Target(r1)] > MinFootprint
    /\ footprint_file[Target(r1)] = known_footprints[Target(r1)]
    /\ pc[r2] = "wait"
    /\ loc[r2].behind = r1
    /\ body[r2] = body[r1]

(* C29: an instance enters the registry only after its container passed  *)
(* a health probe, under the key that is its own container name; while it *)
(* is registered its model and its name do not change; and the entry      *)
(* under a key is never replaced by an instance of another model unless   *)
(* it was removed first.                                                  *)
C29_EntriesStable ==
  [][/\ \A j \in DOMAIN active_containers' :
          (\A i \in DOMAIN active_containers :
             active_containers[i].cid # active_containers'[j].cid) =>
            \E r \in Requests :
              /\ active_containers'[j].cid = r
              /\ active_containers'[j].container_name = loc[r].container_name
              /\ active_containers'[j].model_id = Target(r)
              /\ \/ pc[r] = "sample"
                 \/ /\ pc[r] = "probe"
                    /\ docker'[loc[r].container_name].cid = r
                    /\ docker'[loc[r].container_name].healthy
     /\ \A i \in DOMAIN active_containers, j \in DOMAIN active_containers' :
          /\ active_containers[i].cid = active_containers'[j].cid =>
               /\ active_containers[i].model_id = active_containers'[j].model_id
               /\ active_containers[i].container_name
                    = active_containers'[j].container_name
          /\ active_containers[i].container_name = active_containers'[j].container_name =>
               active_containers[i].model_id = active_containers'[j].model_id]_vars

IdleUnder(name) ==
  \E k \in DOMAIN active_containers :
    active_containers[k].container_name = name /\ Idle(active_containers[k])

C31_ReaperStopsIdleOnly ==
  /\ [][reaper.pc # "sleep" => pc' = pc /\ now' = now]_vars
  /\ [][(reaper.pc = "stops" /\ reaper'.pc = "L351") =>
          IdleUnder(Head(reaper.inactive_containers))]_vars
  /\ [][(reaper' # reaper /\ active_containers' # active_containers) =>
          /\ IdleUnder(Head(reaper.inactive_containers))
          /\ active_containers' =
               DictDel(active_containers, {Head(reaper.inactive_containers)})]_vars

\* The reaper has stopped an idle instance while an admission is under way.
C31_Witness ==
  /\ reaper.pc = "L351"
  /\ ~Present(docker, Head(reaper.inactive_containers))
  /\ IdleUnder(Head(reaper.inactive_containers))
  /\ \E r \in Requests : InAdmission(r)

(***************************************************************************)
(* C32.  With VLLM_INACTIVITY_TIMEOUT <= 0 the reaper stops no container   *)
(* and removes no registry entry: a step that is not a step of a request   *)
(* leaves the runtime and the registry's instances as they are, however    *)
(* long the instances have been idle.                                      *)
(***************************************************************************)
C32_DisabledReaperIdle ==
  [][(VLLM_INACTIVITY_TIMEOUT <= 0 /\ pc' = pc) =>
       /\ docker' = docker
       /\ Entries(active_containers') = Entries(active_containers)]_vars

\* An instance unused for the whole clock window is registered and running,
\* and no request is under way that could have kept it.
C32_Witness ==
  /\ VLLM_INACTIVITY_TIMEOUT <= 0
  /\ \A r \in Requests : pc[r] \in {"new", "done"}
  /\ \E k \in DOMAIN active_containers :
       /\ now - active_containers[k].last_request_time = MaxTime
       /\ docker[active_containers[k].container_name].cid = active_containers[k].cid

(***************************************************************************)
(* C33.  Two admissions in progress at the same time never have the same   *)
(* container name: between the choice of a name and the registration or    *)
(* the failure of the launch no other request's admission chooses it.      *)
(***************************************************************************)
C33_DistinctLaunchNames ==
  \A r, q \in Requests :
    (r # q /\ InAdmission(r) /\ InAdmission(q)) =>
      loc[r].container_name # loc[q].container_name

(***************************************************************************)
(* C34.  The cleanups of the launcher (of a container found under the      *)
(* target name, and of the own container at the probe deadline) leave      *)
(* alone every container that belongs to a registered instance or to the   *)
(* launch of another request, and every registry entry of another model.   *)
(***************************************************************************)
\* Request r is in the stale-container cleanup or in the stop_container of
\* its probe deadline.
CleaningUp(r) ==
  \/ pc[r] \in {"launch", "poll"}
  \/ loc[r].failure = "timeout" /\ pc[r] \in {"stops", "in_351"}

\* The container under name n is the one of a registered instance, or the
\* one a request other than r created and has not registered yet.
NotOwnToRemove(r, n) ==
  /\ Present(docker, n)
  /\ \/ \E k \in DOMAIN active_containers :
          /\ active_containers[k].container_name = n
          /\ active_containers[k].cid = docker[n].cid
     \/ \E q \in Requests \ {r} :
          /\ InAdmission(q)
          /\ loc[q].container_name = n
          /\ docker[n].cid = q

C34_CleanupSparesOthers ==
  [][\A r \in Requests :
       (CleaningUp(r) /\ pc'[r] # pc[r]) =>
         /\ \A n \in Slots : NotOwnToRemove(r, n) => docker'[n] = docker[n]
         /\ \A k \in DOMAIN active_containers :
              active_containers[k].model_id # Target(r) =>
                \E j \in DOMAIN active_containers' :
                  Entries(active_containers')[j] = Entries(active_containers)[k]]_vars

(***************************************************************************)
(* C35.  The registry and the runtime agree: every registered instance has *)
(* a container in the runtime under its name, and that container was       *)
(* created for the instance's model.                                       *)
(***************************************************************************)
C35_RegistryMatchesRuntime ==
  \A k \in DOMAIN active_containers :
    /\ Present(docker, active_containers[k].container_name)
    /\ docker[active_containers[k].container_name].model = active_containers[k].model_id

(***************************************************************************)
(* C36.  An instance with a request in flight is not stopped: while a      *)
(* request is being forwarded to a registered instance whose container is  *)
(* running, no step of another task (eviction, discovery, fallback,        *)
(* reaper) removes that container.                                         *)
(***************************************************************************)
\* Request r has been dispatched to a registered instance that is running.
InFlight(r) ==
  /\ pc[r] = "forward"
  /\ docker[routed[r].name].cid = routed[r].cid
  /\ \E k \in DOMAIN active_containers :
       /\ active_containers[k].container_name = routed[r].name
       /\ active_containers[k].cid = routed[r].cid

C36_InFlightNotStopped ==
  [][\A r \in Requests :
       (InFlight(r) /\ pc'[r] = "forward") =>
         docker'[routed[r].name].cid = routed[r].cid]_vars

(***************************************************************************)
(* C37.  stop_container drops a name from the registry only when the       *)
(* container of that name is gone from the runtime: after a step that      *)
(* takes a name out of the registry the runtime has no container under it. *)
(***************************************************************************)
C37_DroppedMeansGone ==
  [][\A k \in DOMAIN active_containers :
       active_containers[k].container_name \notin Range(Keys(active_containers')) =>
         ~Present(docker', active_containers[k].container_name)]_vars

(***************************************************************************)
(* C38.  A known-footprint admission goes on to launch only if the         *)
(* footprints that stay registered after the evictions plus the model's    *)
(* footprint are within TOTAL_GPU_VRAM; in particular a model whose        *)
(* footprint alone exceeds TOTAL_GPU_VRAM is not launched.                 *)
(***************************************************************************)
C38_LaunchOnlyIfFits ==
  [][\A r \in Requests :
       KnownLaunch(r) =>
         SumVram(active_containers') + known_footprints[ALLOWED_MODELS[body'[r]]]
           <= TOTAL_GPU_VRAM]_vars

(***************************************************************************)
(* C39.  An admission whose launch fails leaves the registry as it was     *)
(* before the admission minus the instances it stopped: the step that      *)
(* decides only takes names out of the registry, the step in which the     *)
(* launch fails leaves the registry as it is, and after the failure the    *)
(* model has no registered instance.                                       *)
(***************************************************************************)
\* The launch of request r fails in this step.
LaunchFails(r) ==
  /\ Checks(r) \/ InAdmission(r)
  /\ pc'[r] = "done"
  /\ status'[r] = 500

C39_FailureKeepsEvictions ==
  [][\A r \in Requests :
       /\ (Checks(r) /\ ~Registered(r) /\ body'[r] \in Aliases) =>
            \E stopped \in SUBSET Range(Keys(active_containers)) :
              active_containers' = DictDel(active_containers, stopped)
       /\ (LaunchFails(r) /\ InAdmission(r)) =>
            active_containers' = active_containers
       /\ LaunchFails(r) =>
            FindByModel(active_containers', ALLOWED_MODELS[body'[r]]) = 0]_vars

====
